---- MODULE Spec2Model ----
(***************************************************************************)
(* Per-tenant knowledge-base lifecycle and document ingestion of           *)
(* ai-ppt-generator: backend/lambda_functions/knowledge_base_manager.py    *)
(* (KnowledgeBaseManager, lambda_handler) and document_processor.py        *)
(* (DocumentProcessor).  DynamoDB tables, the S3 documents bucket, the     *)
(* Bedrock provider and the asynchronous Lambda invocations are the state. *)
(* timeout_manager.py (TimeoutManager.execute_with_retry) is modelled on    *)
(* its own.                                                                *)
(***************************************************************************)
EXTENDS Integers, FiniteSets, Sequences, TLC

\* ------------------------------------------------------------- bounds
MaxDocs == 2
MaxKBs == 2
MaxJobs == 3
MaxRetries == 3

Tenants == {"t1", "t2"}
Filenames == {"report.pdf"}
None == "None"

\* hashlib.md5(user_id.encode()).hexdigest()[:8]
UserHash(t) == IF t = "t1" THEN "h1" ELSE "h2"

\* ------------------------------------------------------------- state
VARIABLES
    user_kb_table,    \* DynamoDB USER_KB_TABLE: user_id -> item
    documents_table,  \* DynamoDB DOCUMENTS_TABLE: document_id -> item
    s3,               \* keys of the objects in DOCUMENTS_BUCKET
    kbs,              \* Bedrock knowledge bases ever created: id -> [owner, live, up, prefix]
    vector_buckets,   \* S3 Vectors buckets that exist
    jobs,             \* Bedrock ingestion jobs: id -> [kb, status]
    events,           \* asynchronous create_and_process invocations: doc number -> payload, pc
    nextDoc,          \* the next uuid4 of process_document
    timeout_manager   \* a TimeoutManager and where its execute_with_retry stands

vars == <<user_kb_table, documents_table, s3, kbs, vector_buckets, jobs, events, nextDoc,
          timeout_manager>>

\* ------------------------------------------------------------- keys, items
DocId(n) == <<"uuid", n>>
BatchId(ts) == <<"pending_documents_batch", ts>>

PendingKey(t, n, f) == <<"pending", t, DocId(n), f>>
FinalKey(h, id, f) == <<"docs", h, id, f>>

NonTerminal == {"uploaded", "creating_knowledge_base", "ready_for_ingestion", "processing", "syncing"}
Terminal == {"completed", "failed"}

\* An item of the documents table; None stands for an attribute the item lacks.
\* upload_date is datetime.utcnow() at the upload: the uploads are numbered in
\* the order of their clock readings, 0 for an item without the attribute.
EmptyDoc ==
    [user_id |-> None, s3_key |-> <<>>, filename |-> None, sync_status |-> None,
     knowledge_base_id |-> 0, ingestion_job_id |-> 0, message |-> None, error_message |-> None,
     upload_date |-> 0]

EmptyKB ==
    [knowledge_base_id |-> 0, data_source_id |-> 0, vector_bucket_name |-> 0,
     user_hash |-> None, status |-> None, document_count |-> 0]

\* Table.put_item: the item replaces whatever is stored under the key.
PutItem(tbl, key, item) ==
    [k \in DOMAIN tbl \cup {key} |-> IF k = key THEN item ELSE tbl[k]]

\* Table.update_item with a SET expression: the named attributes are written,
\* and an item is created under the key when there is none.
UpdateItem(tbl, key, empty, upd) ==
    LET base == IF key \in DOMAIN tbl THEN tbl[key] ELSE empty
    IN  PutItem(tbl, key, [a \in DOMAIN base |-> IF a \in DOMAIN upd THEN upd[a] ELSE base[a]])

\* Table.delete_item
DeleteItem(tbl, key) == [k \in DOMAIN tbl \ {key} |-> tbl[k]]

\* user_kb_table.update_item ... 'ADD document_count :count'
AddCount(tbl, t, n) ==
    LET base == IF t \in DOMAIN tbl THEN tbl[t] ELSE EmptyKB
    IN  PutItem(tbl, t, [base EXCEPT !.document_count = @ + n])

\* A verification that asked whether the id was ever handed out, not whether
\* the knowledge base is still there.
_verify_kb_exists_EverCreated(ks, kb_id) == kb_id \in DOMAIN ks

\* bedrock_agent.get_knowledge_base succeeds: the knowledge base exists and the
\* provider answers; any exception the call raises is taken as 'does not exist'.
_verify_kb_exists(ks, kb_id) == kb_id \in DOMAIN ks /\ ks[kb_id].live /\ ks[kb_id].up

NewKbId(ks) == Cardinality(DOMAIN ks) + 1
NewJobId(js) == Cardinality(DOMAIN js) + 1

\* What an operation returned: success, a sync status, a knowledge base id, a count.
Ret(ok, status, kb, count) == [ok |-> ok, status |-> status, kb |-> kb, count |-> count]

\* ------------------------------------------------------------- stores and provider as one value
\* The operations below are written as functions of the state they read and
\* write, [st |-> the state after, ret |-> the value returned], so that one
\* handler can be composed of the methods it calls.
Cur ==
    [ukb |-> user_kb_table, docs |-> documents_table, s3 |-> s3,
     kbs |-> kbs, vb |-> vector_buckets, jobs |-> jobs,
     events |-> events, nextDoc |-> nextDoc]

\* KnowledgeBaseManager._trigger_ingestion_job: start_ingestion_job, then the job
\* id is written on the item of document_id.  The provider refuses a knowledge
\* base that does not exist; fault is any other failure of the call.
_trigger_ingestion_job(st, kb_id, document_id, fault) ==
    IF fault \/ ~_verify_kb_exists(st.kbs, kb_id)
    THEN [ok |-> FALSE, st |-> st, job |-> 0]
    ELSE LET job_id == NewJobId(st.jobs)
         IN  [ok |-> TRUE, job |-> job_id,
              st |-> [st EXCEPT
                        !.jobs = PutItem(@, job_id, [kb |-> kb_id, status |-> "IN_PROGRESS"]),
                        !.docs = UpdateItem(@, document_id, EmptyDoc, [ingestion_job_id |-> job_id])]]

\* A listing with the prefix pending/ alone.
PendingObjects_AllTenants(keys, t) == {k \in keys : k[1] = "pending"}

\* list_objects_v2(Prefix = pending/{user_id}/)
PendingObjects(keys, t) == {k \in keys : k[1] = "pending" /\ k[2] = t}

\* A migrator whose loop was left at the first failure: when a copy raises,
\* nothing is moved and no ingestion is triggered.
_process_pending_documents_StopsAtFailure(st, t, info, bad, trigFault) ==
    LET pending_objects == PendingObjects(st.s3, t)
        new_key(k) == FinalKey(info.user_hash, k[3], k[4])
        docs1 == [id \in DOMAIN st.docs \cup {k[3] : k \in pending_objects} |->
                    IF \E k \in pending_objects : k[3] = id
                    THEN UpdateItem(st.docs, id, EmptyDoc,
                            [s3_key |-> new_key(CHOOSE k \in pending_objects : k[3] = id),
                             sync_status |-> "ready_for_ingestion"])[id]
                    ELSE st.docs[id]]
        st1 == [st EXCEPT !.s3 = (@ \ pending_objects) \cup {new_key(k) : k \in pending_objects},
                          !.docs = docs1]
        trig == _trigger_ingestion_job(st1, info.knowledge_base_id,
                                       BatchId(NewJobId(st1.jobs)), trigFault)
    IN  IF pending_objects = {} \/ bad \cap pending_objects # {} THEN st
        ELSE IF ~trig.ok THEN st1
        ELSE [trig.st EXCEPT !.ukb = AddCount(@, t, Cardinality(pending_objects))]

\* A migrator that triggered the ingestion inside its loop, once per document moved.
RECURSIVE TriggerEach(_, _, _)
TriggerEach(st, kb_id, ids) ==
    IF ids = {} THEN st
    ELSE LET id == CHOOSE x \in ids : TRUE
         IN  TriggerEach(_trigger_ingestion_job(st, kb_id, id, FALSE).st, kb_id, ids \ {id})

_process_pending_documents_JobPerDocument(st, t, info, bad, trigFault) ==
    LET pending_objects == PendingObjects(st.s3, t)
        moved == pending_objects \ bad
        new_key(k) == FinalKey(info.user_hash, k[3], k[4])
        ids == {k[3] : k \in moved}
        keyOf(id) == CHOOSE k \in moved : k[3] = id
        docs1 == [id \in DOMAIN st.docs \cup ids |->
                    IF id \in ids
                    THEN UpdateItem(st.docs, id, EmptyDoc,
                                    [s3_key |-> new_key(keyOf(id)),
                                     sync_status |-> "ready_for_ingestion"])[id]
                    ELSE st.docs[id]]
        st1 == [st EXCEPT !.s3 = (@ \ moved) \cup {new_key(k) : k \in moved},
                          !.docs = docs1]
        st2 == TriggerEach(st1, info.knowledge_base_id, ids)
    IN  IF pending_objects = {} THEN st
        ELSE [st2 EXCEPT !.ukb = AddCount(@, t, Cardinality(pending_objects))]

\* A migrator that deleted the pending key before copying it: a blob whose
\* copy raises is gone from pending/ and never reaches docs/.
_process_pending_documents_DeletesFirst(st, t, info, bad, trigFault) ==
    LET pending_objects == PendingObjects(st.s3, t)
        moved == pending_objects \ bad
        new_key(k) == FinalKey(info.user_hash, k[3], k[4])
        ids == {k[3] : k \in moved}
        keyOf(id) == CHOOSE k \in moved : k[3] = id
        docs1 == [id \in DOMAIN st.docs \cup ids |->
                    IF id \in ids
                    THEN UpdateItem(st.docs, id, EmptyDoc,
                                    [s3_key |-> new_key(keyOf(id)),
                                     sync_status |-> "ready_for_ingestion"])[id]
                    ELSE st.docs[id]]
        st1 == [st EXCEPT !.s3 = (@ \ pending_objects) \cup {new_key(k) : k \in moved},
                          !.docs = docs1]
        trig == _trigger_ingestion_job(st1, info.knowledge_base_id,
                                       BatchId(NewJobId(st1.jobs)), trigFault)
    IN  IF pending_objects = {} THEN st
        ELSE IF ~trig.ok THEN st1
        ELSE [trig.st EXCEPT !.ukb = AddCount(@, t, Cardinality(pending_objects))]

\* KnowledgeBaseManager._process_pending_documents.  bad: the pending objects
\* whose copy_object raises; trigFault: start_ingestion_job raises.
_process_pending_documents(st, t, info, bad, trigFault) ==
    LET pending_objects == PendingObjects(st.s3, t)
        moved == pending_objects \ bad
        new_key(k) == FinalKey(info.user_hash, k[3], k[4])
        ids == {k[3] : k \in moved}
        keyOf(id) == CHOOSE k \in moved : k[3] = id
        docs1 == [id \in DOMAIN st.docs \cup ids |->
                    IF id \in ids
                    THEN UpdateItem(st.docs, id, EmptyDoc,
                                    [s3_key |-> new_key(keyOf(id)),
                                     sync_status |-> "ready_for_ingestion"])[id]
                    ELSE st.docs[id]]
        st1 == [st EXCEPT !.s3 = (@ \ moved) \cup {new_key(k) : k \in moved},
                          !.docs = docs1]
        trig == _trigger_ingestion_job(st1, info.knowledge_base_id,
                                       BatchId(NewJobId(st1.jobs)), trigFault)
        processed_count == Cardinality(pending_objects)
    IN  IF pending_objects = {} THEN st
        ELSE IF ~trig.ok THEN st1
        ELSE [trig.st EXCEPT !.ukb = AddCount(@, t, processed_count)]

\* KnowledgeBaseManager._create_user_kb, steps 1-5: the vector bucket and index,
\* the knowledge base and its data source.  A failure deletes the bucket again
\* and raises.  fault names the step that raises.
CreateProviderResources(st, t, fault) ==
    LET kb_id == NewKbId(st.kbs)
        user_hash == UserHash(t)
        info == [EmptyKB EXCEPT !.knowledge_base_id = kb_id, !.data_source_id = kb_id,
                                !.vector_bucket_name = kb_id, !.user_hash = user_hash,
                                !.status = "active"]
        kb == [owner |-> t, live |-> TRUE, up |-> TRUE, bucket |-> kb_id,
               prefix |-> IF fault = "ds" THEN <<>> ELSE <<"docs", user_hash>>]
    IN  IF fault = "kb"
        THEN [ok |-> FALSE, st |-> st, info |-> EmptyKB]
        ELSE IF fault = "ds"
        THEN [ok |-> FALSE, st |-> [st EXCEPT !.kbs = PutItem(@, kb_id, kb)], info |-> EmptyKB]
        ELSE [ok |-> TRUE, info |-> info,
              st |-> [st EXCEPT !.kbs = PutItem(@, kb_id, kb), !.vb = @ \cup {kb_id}]]

\* A step 6 whose failure left the vector bucket behind.
StoreUserKb_KeepsBucket(st, t, info, fault, bad, trigFault) ==
    IF fault = "put"
    THEN [ok |-> FALSE, st |-> st]
    ELSE [ok |-> TRUE,
          st |-> _process_pending_documents([st EXCEPT !.ukb = PutItem(@, t, info)],
                                            t, info, bad, trigFault)]

\* KnowledgeBaseManager._create_user_kb, step 6 and the call of the migrator.
\* When put_item raises, the bucket is deleted and the error raised.
StoreUserKb(st, t, info, fault, bad, trigFault) ==
    IF fault = "put"
    THEN [ok |-> FALSE, st |-> [st EXCEPT !.vb = @ \ {info.vector_bucket_name}]]
    ELSE [ok |-> TRUE,
          st |-> _process_pending_documents([st EXCEPT !.ukb = PutItem(@, t, info)],
                                            t, info, bad, trigFault)]

\* KnowledgeBaseManager._create_user_kb
_create_user_kb(st, t, fault, bad, trigFault) ==
    LET res == CreateProviderResources(st, t, fault)
        put == StoreUserKb(res.st, t, res.info, fault, bad, trigFault)
    IN  IF ~res.ok THEN [ok |-> FALSE, st |-> res.st, info |-> EmptyKB]
        ELSE [ok |-> put.ok, st |-> put.st, info |-> res.info]

\* An operation is carried out: the state becomes the one it computed.  At most
\* MaxDocs documents are uploaded, and the provider hands out at most MaxKBs
\* knowledge bases and MaxJobs ingestion jobs.
Do(res) ==
    /\ res.st.nextDoc <= MaxDocs + 1
    /\ Cardinality(DOMAIN res.st.kbs) <= MaxKBs
    /\ Cardinality(DOMAIN res.st.jobs) <= MaxJobs
    /\ user_kb_table' = res.st.ukb
    /\ documents_table' = res.st.docs
    /\ s3' = res.st.s3
    /\ kbs' = res.st.kbs
    /\ vector_buckets' = res.st.vb
    /\ jobs' = res.st.jobs
    /\ events' = res.st.events
    /\ nextDoc' = res.st.nextDoc
    /\ UNCHANGED timeout_manager


\* ------------------------------------------------------------- DocumentProcessor
\* DocumentProcessor._get_existing_user_kb: the item of the tenant when its
\* knowledge base is verified; a stale item is deleted.  An item without a
\* knowledge_base_id raises KeyError, which is caught: no item is returned.
_get_existing_user_kb(st, t) ==
    IF t \notin DOMAIN st.ukb \/ st.ukb[t].knowledge_base_id = 0
    THEN [found |-> FALSE, kb_info |-> EmptyKB, st |-> st]
    ELSE IF _verify_kb_exists(st.kbs, st.ukb[t].knowledge_base_id)
    THEN [found |-> TRUE, kb_info |-> st.ukb[t], st |-> st]
    ELSE [found |-> FALSE, kb_info |-> EmptyKB, st |-> [st EXCEPT !.ukb = DeleteItem(@, t)]]

\* A _trigger_kb_ingestion whose except clause logged the error and wrote nothing.
_trigger_kb_ingestion_OnlyLogs(st, kb_info, document_id, fault) ==
    IF fault \/ ~_verify_kb_exists(st.kbs, kb_info.knowledge_base_id)
    THEN st
    ELSE LET job_id == NewJobId(st.jobs)
         IN  [st EXCEPT
                !.jobs = PutItem(@, job_id, [kb |-> kb_info.knowledge_base_id, status |-> "IN_PROGRESS"]),
                !.docs = UpdateItem(@, document_id, EmptyDoc,
                            [sync_status |-> "syncing", ingestion_job_id |-> job_id])]

\* DocumentProcessor._trigger_kb_ingestion: the job id and 'syncing' are written
\* on the document; when start_ingestion_job raises the document becomes 'failed'.
_trigger_kb_ingestion(st, kb_info, document_id, fault) ==
    IF fault \/ ~_verify_kb_exists(st.kbs, kb_info.knowledge_base_id)
    THEN [st EXCEPT !.docs = UpdateItem(@, document_id, EmptyDoc,
                        [sync_status |-> "failed", error_message |-> "start_ingestion_job"])]
    ELSE LET job_id == NewJobId(st.jobs)
         IN  [st EXCEPT
                !.jobs = PutItem(@, job_id, [kb |-> kb_info.knowledge_base_id, status |-> "IN_PROGRESS"]),
                !.docs = UpdateItem(@, document_id, EmptyDoc,
                            [sync_status |-> "syncing", ingestion_job_id |-> job_id])]

\* DocumentProcessor._process_with_existing_kb (fast path)
_process_with_existing_kb(st, f, t, n, kb_info, fault) ==
    LET s3_key == FinalKey(kb_info.user_hash, DocId(n), f)
        document_metadata ==
            [EmptyDoc EXCEPT !.user_id = t, !.s3_key = s3_key, !.filename = f, !.upload_date = n,
                             !.knowledge_base_id = kb_info.knowledge_base_id,
                             !.sync_status = "uploaded"]
        st1 == [st EXCEPT !.s3 = @ \cup {s3_key},
                          !.docs = PutItem(@, DocId(n), document_metadata)]
    IN  [st |-> _trigger_kb_ingestion(st1, kb_info, DocId(n), fault = "ingest"),
         ret |-> Ret(TRUE, "processing", kb_info.knowledge_base_id, 0)]

\* The payload of the asynchronous 'create_and_process' invocation, and where the
\* handler that received it stands.
Event(t, n, f) ==
    [user_id |-> t, document_id |-> DocId(n), filename |-> f,
     temp_s3_key |-> PendingKey(t, n, f), pc |-> "queued", user_kb_info |-> EmptyKB]

\* DocumentProcessor._start_async_kb_creation (slow path).  When
\* lambda_client.invoke raises, the blob and the item are already written.
_start_async_kb_creation(st, f, t, n, fault) ==
    LET temp_s3_key == PendingKey(t, n, f)
        document_metadata ==
            [EmptyDoc EXCEPT !.user_id = t, !.s3_key = temp_s3_key, !.filename = f,
                             !.upload_date = n,
                             !.sync_status = "creating_knowledge_base",
                             !.message = "Creating your personal Knowledge Base"]
        st1 == [st EXCEPT !.s3 = @ \cup {temp_s3_key},
                          !.docs = PutItem(@, DocId(n), document_metadata)]
    IN  IF fault = "invoke"
        THEN [st |-> st1, ret |-> Ret(FALSE, None, 0, 0)]
        ELSE [st |-> [st1 EXCEPT !.events = PutItem(@, n, Event(t, n, f))],
              ret |-> Ret(TRUE, "creating_knowledge_base", 0, 0)]

\* A process_document that went the slow path whatever item it found.
process_document_AlwaysAsync(st, t, f, fault) ==
    _start_async_kb_creation(_get_existing_user_kb([st EXCEPT !.nextDoc = st.nextDoc + 1], t).st,
                             f, t, st.nextDoc, fault)

\* DocumentProcessor.process_document.  fault: "ingest" (start_ingestion_job
\* raises), "invoke" (lambda_client.invoke raises) or "none".
process_document(st, t, f, fault) ==
    LET n == st.nextDoc
        ex == _get_existing_user_kb([st EXCEPT !.nextDoc = n + 1], t)
    IN  IF ex.found
        THEN _process_with_existing_kb(ex.st, f, t, n, ex.kb_info, fault)
        ELSE _start_async_kb_creation(ex.st, f, t, n, fault)

\* The items UserDocumentsIndex holds under partition key user_id = t
UserDocumentsIndex(docs, t) == {d \in DOMAIN docs : docs[d].user_id = t}

\* The sort key of UserDocumentsIndex: the upload date of the item
SortKey(item) == item.upload_date

Range(seq) == {seq[i] : i \in DOMAIN seq}

\* The items of a query in the order of ScanIndexForward = True, as document ids
Ascending(docs, found) ==
    CHOOSE seq \in [1..Cardinality(found) -> found] :
        /\ Range(seq) = found
        /\ \A i, j \in DOMAIN seq : i < j => SortKey(docs[seq[i]]) <= SortKey(docs[seq[j]])

Reversed(seq) == [i \in DOMAIN seq |-> seq[Len(seq) + 1 - i]]

\* A get_user_documents whose query left ScanIndexForward at its default.
get_user_documents_Forward(st, t) == Ascending(st.docs, UserDocumentsIndex(st.docs, t))

\* DocumentProcessor.get_user_documents: the query on UserDocumentsIndex with
\* KeyConditionExpression user_id = t and ScanIndexForward = False; the
\* document ids of the items returned, in their order.
get_user_documents(st, t) == Reversed(Ascending(st.docs, UserDocumentsIndex(st.docs, t)))

\* ------------------------------------------------------------- Ingestion reconciler
\* list_ingestion_jobs(knowledgeBaseId, dataSourceId, maxResults=10): the most
\* recent jobs of the knowledge base.
MaxResults == 10

ListIngestionJobs(js, kb_id) ==
    LET mine == {j \in DOMAIN js : js[j].kb = kb_id}
    IN  {j \in mine : Cardinality({i \in mine : i > j}) < MaxResults}

\* A scan of the COMPLETE branch that filtered on ingestion_job_id alone.
ScanCompleted_AnyStatus(docs, job_id) ==
    {d \in DOMAIN docs : docs[d].ingestion_job_id = job_id}

\* A scan of the COMPLETE branch that matched 'processing' alone.
ScanCompleted_OnlyProcessing(docs, job_id) ==
    {d \in DOMAIN docs : docs[d].ingestion_job_id = job_id
                         /\ docs[d].sync_status = "processing"}

\* The scan of the COMPLETE branch: FilterExpression on ingestion_job_id and sync_status
ScanCompleted(docs, job_id) ==
    {d \in DOMAIN docs : docs[d].ingestion_job_id = job_id
                         /\ docs[d].sync_status \in {"processing", "syncing"}}

\* What the provider reports as job['failureReasons'] of a FAILED ingestion
\* job: a text of the provider's, the same for every job here.
FailureReasons(job_id) == "failureReasons"

\* A scan of the FAILED branch that filtered on sync_status alone.
ScanFailed_AnyJob(docs, job_id) ==
    {d \in DOMAIN docs : docs[d].sync_status = "processing"}

\* The scan of the FAILED branch
ScanFailed(docs, job_id) ==
    {d \in DOMAIN docs : docs[d].ingestion_job_id = job_id
                         /\ docs[d].sync_status = "processing"}

\* KnowledgeBaseManager.check_ingestion_status.  Without an item, without a
\* knowledge_base_id in it, or when list_ingestion_jobs raises (the knowledge
\* base is gone) the result is {'error': ...}.
check_ingestion_status(st, t) ==
    IF t \notin DOMAIN st.ukb \/ st.ukb[t].knowledge_base_id = 0
       \/ ~_verify_kb_exists(st.kbs, st.ukb[t].knowledge_base_id)
    THEN [st |-> st, ret |-> Ret(FALSE, None, 0, 0)]
    ELSE LET listed == ListIngestionJobs(st.jobs, st.ukb[t].knowledge_base_id)
             complete == UNION {ScanCompleted(st.docs, j) :
                                  j \in {i \in listed : st.jobs[i].status = "COMPLETE"}}
             failed == UNION {ScanFailed(st.docs, j) :
                                  j \in {i \in listed : st.jobs[i].status = "FAILED"}}
             docs1 == [d \in DOMAIN st.docs |->
                         IF d \in complete
                         THEN [st.docs[d] EXCEPT !.sync_status = "completed",
                                  !.message = "Document successfully indexed in Knowledge Base"]
                         ELSE IF d \in failed
                         THEN [st.docs[d] EXCEPT !.sync_status = "failed",
                                  !.message = "Knowledge Base ingestion failed"]
                         ELSE st.docs[d]]
         IN  [st |-> [st EXCEPT !.docs = docs1],
              ret |-> Ret(TRUE, None, 0, Cardinality(complete))]

\* DocumentProcessor.get_sync_status
get_sync_status(st, n, t) ==
    LET d == DocId(n)
    IN  IF d \notin DOMAIN st.docs \/ st.docs[d].user_id # t
        THEN [st |-> st, ret |-> Ret(FALSE, None, 0, 0)]
        ELSE IF st.docs[d].sync_status = "processing"
        THEN LET res == check_ingestion_status(st, t)
             IN  [st |-> res.st, ret |-> Ret(TRUE, res.st.docs[d].sync_status, 0, 0)]
        ELSE [st |-> st, ret |-> Ret(TRUE, st.docs[d].sync_status, 0, 0)]

\* A delete_document that looked the document up and did not compare its user_id.
delete_document_NoOwnerCheck(st, n, t, fault) ==
    LET d == DocId(n)
        st1 == [st EXCEPT !.s3 = IF fault = "s3" THEN @ ELSE @ \ {st.docs[d].s3_key}]
    IN  IF d \notin DOMAIN st.docs
        THEN [st |-> st, ret |-> Ret(FALSE, None, 0, 0)]
        ELSE IF fault = "dynamodb"
        THEN [st |-> st1, ret |-> Ret(FALSE, None, 0, 0)]
        ELSE [st |-> [st1 EXCEPT !.docs = DeleteItem(@, d)], ret |-> Ret(TRUE, None, 0, 0)]

\* A delete_document that gave up when delete_object raised.
delete_document_StopsAtBlobError(st, n, t, fault) ==
    LET d == DocId(n)
        resync == t \in DOMAIN st.ukb /\ st.ukb[t].knowledge_base_id # 0
                  /\ _verify_kb_exists(st.kbs, st.ukb[t].knowledge_base_id)
        st2 == [st EXCEPT !.s3 = @ \ {st.docs[d].s3_key}, !.docs = DeleteItem(@, d)]
    IN  IF d \notin DOMAIN st.docs \/ st.docs[d].user_id # t \/ fault # "none"
        THEN [st |-> st, ret |-> Ret(FALSE, None, 0, 0)]
        ELSE [st |-> IF resync
                     THEN [st2 EXCEPT !.jobs = PutItem(@, NewJobId(@),
                              [kb |-> st.ukb[t].knowledge_base_id, status |-> "IN_PROGRESS"])]
                     ELSE st2,
              ret |-> Ret(TRUE, None, 0, 0)]

\* A delete_document that logged the error of delete_item and went on.
delete_document_IgnoresItemError(st, n, t, fault) ==
    LET d == DocId(n)
        document == st.docs[d]
        st1 == [st EXCEPT !.s3 = IF fault = "s3" THEN @ ELSE @ \ {document.s3_key}]
        st2 == [st1 EXCEPT !.docs = IF fault = "dynamodb" THEN @ ELSE DeleteItem(@, d)]
        resync == t \in DOMAIN st.ukb /\ st.ukb[t].knowledge_base_id # 0
                  /\ _verify_kb_exists(st.kbs, st.ukb[t].knowledge_base_id)
        st3 == IF resync
               THEN [st2 EXCEPT !.jobs = PutItem(@, NewJobId(@),
                        [kb |-> st.ukb[t].knowledge_base_id, status |-> "IN_PROGRESS"])]
               ELSE st2
    IN  IF d \notin DOMAIN st.docs \/ st.docs[d].user_id # t
        THEN [st |-> st, ret |-> Ret(FALSE, None, 0, 0)]
        ELSE [st |-> st3, ret |-> Ret(TRUE, None, 0, 0)]

\* DocumentProcessor.delete_document.  fault: "s3" (delete_object raises),
\* "dynamodb" (delete_item raises) or "none".
delete_document(st, n, t, fault) ==
    LET d == DocId(n)
        document == st.docs[d]
        st1 == [st EXCEPT !.s3 = IF fault = "s3" THEN @ ELSE @ \ {document.s3_key}]
        st2 == [st1 EXCEPT !.docs = DeleteItem(@, d)]
        resync == t \in DOMAIN st.ukb /\ st.ukb[t].knowledge_base_id # 0
                  /\ _verify_kb_exists(st.kbs, st.ukb[t].knowledge_base_id)
        st3 == IF resync
               THEN [st2 EXCEPT !.jobs = PutItem(@, NewJobId(@),
                        [kb |-> st.ukb[t].knowledge_base_id, status |-> "IN_PROGRESS"])]
               ELSE st2
    IN  IF d \notin DOMAIN st.docs \/ st.docs[d].user_id # t
        THEN [st |-> st, ret |-> Ret(FALSE, None, 0, 0)]
        ELSE IF fault = "dynamodb"
        THEN [st |-> st1, ret |-> Ret(FALSE, None, 0, 0)]
        ELSE [st |-> st3, ret |-> Ret(TRUE, None, 0, 0)]

\* ------------------------------------------------------------- create_and_process handler
\* The except branch of create_and_process_document: the document is marked
\* failed and {'success': False} returned.
HandlerFails(st, n) ==
    [st |-> [st EXCEPT !.docs = UpdateItem(@, st.events[n].document_id, EmptyDoc,
                          [sync_status |-> "failed", message |-> "Failed to create Knowledge Base"]),
                       !.events[n].pc = "failed"],
     ret |-> Ret(FALSE, None, 0, 0)]

HandlerGoes(st, n, pc, info) ==
    [st |-> [st EXCEPT !.events[n].pc = pc, !.events[n].user_kb_info = info],
     ret |-> Ret(TRUE, None, info.knowledge_base_id, 0)]

\* create_and_process_document, step 1, first half: _create_user_kb up to the
\* data source (the 30 s settle delay lies in here).
\* fault "kb_silent": create_knowledge_base raises, and so does the update_item
\* of the except branch, which is logged and nothing more.
HandlerCreate(st, n, fault) ==
    LET res == CreateProviderResources(st, st.events[n].user_id, fault)
    IN  IF fault = "kb_silent"
        THEN [st |-> [st EXCEPT !.events[n].pc = "failed"], ret |-> Ret(FALSE, None, 0, 0)]
        ELSE IF res.ok THEN HandlerGoes(res.st, n, "created", res.info)
        ELSE HandlerFails(res.st, n)

\* create_and_process_document, step 1, second half: _create_user_kb stores the
\* item and runs _process_pending_documents.
HandlerStore(st, n, fault, bad, trigFault) ==
    LET e == st.events[n]
        res == StoreUserKb(st, e.user_id, e.user_kb_info, fault, bad, trigFault)
    IN  IF res.ok THEN HandlerGoes(res.st, n, "stored", e.user_kb_info)
        ELSE HandlerFails(res.st, n)

\* A step 2 that copied the blob to the final key and left the temp object.
HandlerMove_KeepsTemp(st, n) ==
    LET e == st.events[n]
        final_s3_key == FinalKey(e.user_kb_info.user_hash, e.document_id, e.filename)
    IN  IF e.temp_s3_key \in st.s3 \/ final_s3_key \in st.s3
        THEN HandlerGoes([st EXCEPT !.s3 = @ \cup {final_s3_key}], n, "moved", e.user_kb_info)
        ELSE [st |-> [st EXCEPT !.docs = UpdateItem(@, e.document_id, EmptyDoc,
                          [sync_status |-> "failed", message |-> "Failed to create Knowledge Base"]),
                       !.events[n].pc = "failed"],
              ret |-> Ret(FALSE, None, 0, 0)]

\* create_and_process_document, step 2: the blob is moved from the temp key to
\* the final key, or found at the final key already.
\* head_object of a key that is not there is taken to raise NoSuchKey, the
\* exception the except clauses name.
HandlerMove(st, n) ==
    LET e == st.events[n]
        final_s3_key == FinalKey(e.user_kb_info.user_hash, e.document_id, e.filename)
    IN  IF e.temp_s3_key \in st.s3
        THEN HandlerGoes([st EXCEPT !.s3 = (@ \cup {final_s3_key}) \ {e.temp_s3_key}],
                         n, "moved", e.user_kb_info)
        ELSE IF final_s3_key \in st.s3
        THEN HandlerGoes(st, n, "moved", e.user_kb_info)
        ELSE HandlerFails(st, n)

\* Steps 3-5 with an update_item that wrote the key and the knowledge base and
\* left sync_status as it was.
HandlerFinish_KeepsStatus(st, n, trigFault) ==
    LET e == st.events[n]
        info == e.user_kb_info
        st3 == [st EXCEPT !.docs = UpdateItem(@, e.document_id, EmptyDoc,
                    [s3_key |-> FinalKey(info.user_hash, e.document_id, e.filename),
                     knowledge_base_id |-> info.knowledge_base_id])]
        trig == _trigger_ingestion_job(st3, info.knowledge_base_id, e.document_id, trigFault)
    IN  IF trig.ok
        THEN HandlerGoes([trig.st EXCEPT !.ukb = AddCount(@, e.user_id, 1)], n, "done", info)
        ELSE [st |-> [st3 EXCEPT !.docs = UpdateItem(@, e.document_id, EmptyDoc,
                          [sync_status |-> "failed", message |-> "Failed to create Knowledge Base"]),
                       !.events[n].pc = "failed"],
              ret |-> Ret(FALSE, None, 0, 0)]

\* create_and_process_document, steps 3-5: the document item is updated, the
\* ingestion job triggered and the tenant's document_count incremented.
HandlerFinish(st, n, trigFault) ==
    LET e == st.events[n]
        info == e.user_kb_info
        final_s3_key == FinalKey(info.user_hash, e.document_id, e.filename)
        st3 == [st EXCEPT !.docs = UpdateItem(@, e.document_id, EmptyDoc,
                    [s3_key |-> final_s3_key, knowledge_base_id |-> info.knowledge_base_id,
                     sync_status |-> "processing",
                     message |-> "Knowledge Base created successfully"])]
        trig == _trigger_ingestion_job(st3, info.knowledge_base_id, e.document_id, trigFault)
    IN  IF trig.ok
        THEN HandlerGoes([trig.st EXCEPT !.ukb = AddCount(@, e.user_id, 1)], n, "done", info)
        ELSE HandlerFails(st3, n)

\* create_and_process_document after the knowledge base and data source exist:
\* the rest of step 1 and steps 2-5, each step run when the one before succeeded.
HandlerCompletes(st, n, fault, bad, trigFault) ==
    LET a == HandlerStore(st, n, fault, bad, trigFault)
        b == HandlerMove(a.st, n)
    IN  IF ~a.ret.ok THEN a
        ELSE IF ~b.ret.ok THEN b
        ELSE HandlerFinish(b.st, n, trigFault)

\* A get_or_create_user_kb that provisioned without looking for an item first.
get_or_create_user_kb_AlwaysCreates(st, t, fault, bad, trigFault) ==
    LET res == _create_user_kb([st EXCEPT !.ukb = DeleteItem(@, t)], t, fault, bad, trigFault)
    IN  [st |-> res.st, ret |-> Ret(res.ok, None, res.info.knowledge_base_id, 0)]

\* ------------------------------------------------------------- KnowledgeBaseManager
\* KnowledgeBaseManager.get_or_create_user_kb.  An item without
\* knowledge_base_id raises KeyError.
get_or_create_user_kb(st, t, fault, bad, trigFault) ==
    IF t \in DOMAIN st.ukb /\ st.ukb[t].knowledge_base_id = 0
    THEN [st |-> st, ret |-> Ret(FALSE, None, 0, 0)]
    ELSE IF t \in DOMAIN st.ukb /\ _verify_kb_exists(st.kbs, st.ukb[t].knowledge_base_id)
    THEN [st |-> st, ret |-> Ret(TRUE, None, st.ukb[t].knowledge_base_id, 0)]
    ELSE LET res == _create_user_kb([st EXCEPT !.ukb = DeleteItem(@, t)], t, fault, bad, trigFault)
         IN  [st |-> res.st, ret |-> Ret(res.ok, None, res.info.knowledge_base_id, 0)]

\* lambda_handler, operation 'process_pending'
process_pending(st, t, bad, trigFault) ==
    IF t \notin DOMAIN st.ukb
    THEN [st |-> st, ret |-> Ret(FALSE, None, 0, 0)]
    ELSE IF st.ukb[t].knowledge_base_id = 0
    THEN [st |-> st, ret |-> Ret(TRUE, None, 0, 0)]
    ELSE [st |-> _process_pending_documents(st, t, st.ukb[t], bad, trigFault),
          ret |-> Ret(TRUE, None, 0, 0)]

\* A delete_user_kb that gave up when delete_vector_bucket raised.
delete_user_kb_StopsAtBucketError(st, t, fault) ==
    IF t \notin DOMAIN st.ukb
    THEN [st |-> st, ret |-> Ret(TRUE, None, 0, 0)]
    ELSE IF ~_verify_kb_exists(st.kbs, st.ukb[t].knowledge_base_id)
    THEN [st |-> st, ret |-> Ret(FALSE, None, 0, 0)]
    ELSE LET kb_id == st.ukb[t].knowledge_base_id
             gone == [st EXCEPT !.kbs[kb_id].live = FALSE]
         IN  IF fault = "bucket"
             THEN [st |-> gone, ret |-> Ret(FALSE, None, kb_id, 0)]
             ELSE [st |-> [gone EXCEPT !.vb = @ \ {st.ukb[t].vector_bucket_name},
                                       !.ukb = IF fault = "dynamodb" THEN @ ELSE DeleteItem(@, t)],
                   ret |-> Ret(TRUE, None, kb_id, 0)]

\* KnowledgeBaseManager.delete_user_kb.  Without an item True is returned at
\* once.  delete_knowledge_base comes first: it raises when the knowledge base
\* is gone, and False is returned with the bucket and the item kept.  fault
\* names the later call that raises: "bucket" (delete_vector_bucket, logged as
\* a warning) or "dynamodb" (delete_item in _remove_user_kb_from_db, logged as
\* an error); neither stops the operation, which returns True.
delete_user_kb(st, t, fault) ==
    IF t \notin DOMAIN st.ukb
    THEN [st |-> st, ret |-> Ret(TRUE, None, 0, 0)]
    ELSE IF ~_verify_kb_exists(st.kbs, st.ukb[t].knowledge_base_id)
    THEN [st |-> st, ret |-> Ret(FALSE, None, 0, 0)]
    ELSE LET kb_id == st.ukb[t].knowledge_base_id
         IN  [st |-> [st EXCEPT !.kbs[kb_id].live = FALSE,
                                !.vb = IF fault = "bucket" THEN @
                                       ELSE @ \ {st.ukb[t].vector_bucket_name},
                                !.ukb = IF fault = "dynamodb" THEN @ ELSE DeleteItem(@, t)],
              ret |-> Ret(TRUE, None, kb_id, 0)]

\* KnowledgeBaseManager.get_kb_stats: {'error': ...} without an item or when
\* get_knowledge_base raises, the statistics otherwise.  Nothing is written.
get_kb_stats(st, t) ==
    IF t \notin DOMAIN st.ukb \/ st.ukb[t].knowledge_base_id = 0
       \/ ~_verify_kb_exists(st.kbs, st.ukb[t].knowledge_base_id)
    THEN [st |-> st, ret |-> Ret(FALSE, None, 0, 0)]
    ELSE [st |-> st, ret |-> Ret(TRUE, "ACTIVE", st.ukb[t].knowledge_base_id,
                                 st.ukb[t].document_count)]

\* KnowledgeBaseManager.create_and_process_document as one call, for the
\* invocation of document number n.
create_and_process_document(st, n, fault, bad, trigFault) ==
    LET a == HandlerCreate(st, n, fault)
    IN  IF ~a.ret.ok THEN a ELSE HandlerCompletes(a.st, n, fault, bad, trigFault)

Operations == {"get_or_create", "delete", "stats", "create_and_process",
               "process_pending", "check_ingestion_status", "list_all", "unknown"}

Response(statusCode, res) == [statusCode |-> statusCode, ok |-> res.ret.ok, st |-> res.st]

\* lambda_handler of knowledge_base_manager.py.  user_id is None when the event
\* carries none; n is the document number of a create_and_process event.
\* `ok` is what the operation reported in the body: True, or False for
\* {'success': False} and {'error': ...}.  An exception that reaches the
\* handler (get_or_create) is answered with 500.
lambda_handler(st, operation, user_id, n, fault) ==
    LET nothing == [st |-> st, ret |-> Ret(FALSE, None, 0, 0)]
        listed == [st |-> st, ret |-> Ret(TRUE, None, 0, 0)]
    IN  IF user_id = None THEN Response(400, nothing)
        ELSE CASE operation = "get_or_create" ->
                    LET r == get_or_create_user_kb(st, user_id, fault, {}, FALSE)
                    IN  Response(IF r.ret.ok THEN 200 ELSE 500, r)
               [] operation = "delete" -> Response(200, delete_user_kb(st, user_id, fault))
               [] operation = "stats" -> Response(200, get_kb_stats(st, user_id))
               [] operation = "create_and_process" ->
                    IF n \in DOMAIN st.events
                    THEN Response(200, create_and_process_document(st, n, fault, {}, FALSE))
                    ELSE Response(200, nothing)
               [] operation = "process_pending" ->
                    LET r == process_pending(st, user_id, {}, FALSE)
                    IN  Response(IF r.ret.ok THEN 200 ELSE 404, r)
               [] operation = "check_ingestion_status" ->
                    Response(200, check_ingestion_status(st, user_id))
               [] operation = "list_all" -> Response(200, listed)
               [] OTHER -> Response(400, nothing)

\* ------------------------------------------------------------- TimeoutManager
\* What one invocation of the operation does: it returns, or raises TimeoutError
\* or another exception.
Outcomes == {"ok", "TimeoutError", "ValueError", "KeyError"}

\* TimeoutManager.__init__ with config.max_retries, at the entry of
\* execute_with_retry.  exceeded: is_timeout_exceeded(); attempt: the loop
\* variable; log: the outcomes of the invocations of the operation so far;
\* pc: "loop" (check_timeout of the loop), "inner" (check_timeout of
\* execute_with_timeout), "call" (the operation), "returned", "raised".
TimeoutManager(max_retries) ==
    [max_retries |-> max_retries, exceeded |-> FALSE, attempt |-> 0, pc |-> "loop",
     log |-> <<>>, last_exception |-> None, result |-> None]

\* TimeoutManager.check_timeout, raising through `except TimeoutError: raise`
check_timeout(tm, then) ==
    IF tm.exceeded
    THEN [tm EXCEPT !.pc = "raised", !.result = "TimeoutError"]
    ELSE [tm EXCEPT !.pc = then]

\* An execute_with_retry that handled TimeoutError like any other exception.
execute_with_retry_RetriesTimeout(tm, outcome) ==
    LET called == [tm EXCEPT !.log = Append(@, outcome)]
    IN  IF outcome = "ok"
        THEN [called EXCEPT !.pc = "returned", !.result = "ok"]
        ELSE IF tm.attempt < tm.max_retries
        THEN [called EXCEPT !.last_exception = outcome, !.attempt = @ + 1, !.pc = "loop"]
        ELSE [called EXCEPT !.last_exception = outcome, !.pc = "raised", !.result = outcome]

\* TimeoutManager.execute_with_retry from the invocation of the operation (in
\* execute_with_timeout) to the next attempt, the return or the raise.
execute_with_retry(tm, outcome) ==
    LET called == [tm EXCEPT !.log = Append(@, outcome)]
    IN  IF outcome = "ok"
        THEN [called EXCEPT !.pc = "returned", !.result = "ok"]
        ELSE IF outcome = "TimeoutError"
        THEN [called EXCEPT !.pc = "raised", !.result = "TimeoutError"]
        ELSE IF tm.attempt < tm.max_retries
        THEN [called EXCEPT !.last_exception = outcome, !.attempt = @ + 1, !.pc = "loop"]
        ELSE [called EXCEPT !.last_exception = outcome, !.pc = "raised", !.result = outcome]

\* ------------------------------------------------------------- actions
Docs == 1..MaxDocs

\* uploadDocument
ProcessDocument(t, f, fault) ==
    /\ fault = "ingest" => _get_existing_user_kb(Cur, t).found
    /\ fault = "invoke" => ~_get_existing_user_kb(Cur, t).found
    /\ Do(process_document(Cur, t, f, fault))

\* The asynchronous 'create_and_process' invocation of document n, step by step
Create(n, fault) ==
    /\ n \in DOMAIN events /\ events[n].pc = "queued"
    /\ Do(HandlerCreate(Cur, n, fault))

Complete(n, fault, bad, trigFault) ==
    /\ n \in DOMAIN events /\ events[n].pc = "created"
    /\ bad \subseteq PendingObjects(s3, events[n].user_id)
    /\ Do(HandlerCompletes(Cur, n, fault, bad, trigFault))

\* The same handler after 'created', one step at a time: the item is stored and
\* the pending documents migrated, then step 2, then steps 3-5.
StoreKb(n, fault, bad, trigFault) ==
    /\ n \in DOMAIN events /\ events[n].pc = "created"
    /\ bad \subseteq PendingObjects(s3, events[n].user_id)
    /\ Do(HandlerStore(Cur, n, fault, bad, trigFault))

Move(n) ==
    /\ n \in DOMAIN events /\ events[n].pc = "stored"
    /\ Do(HandlerMove(Cur, n))

Finish(n, trigFault) ==
    /\ n \in DOMAIN events /\ events[n].pc = "moved"
    /\ Do(HandlerFinish(Cur, n, trigFault))

\* lambda_handler, operation 'get_or_create'
GetOrCreate(t, fault, bad) ==
    /\ bad \subseteq PendingObjects(s3, t)
    /\ Do(get_or_create_user_kb(Cur, t, fault, bad, FALSE))

\* lambda_handler, operation 'check_ingestion_status'
CheckIngestionStatus(t) == TRUE /\ Do(check_ingestion_status(Cur, t))

\* getSyncStatus
GetSyncStatus(n, t) == TRUE /\ Do(get_sync_status(Cur, n, t))

\* deleteDocument
DeleteDocument(n, t, fault) ==
    /\ fault # "none" => DocId(n) \in UserDocumentsIndex(documents_table, t)
    /\ Do(delete_document(Cur, n, t, fault))

\* lambda_handler, operation 'process_pending'
ProcessPending(t) == TRUE /\ Do(process_pending(Cur, t, {}, FALSE))

\* lambda_handler, operation 'delete'
DeleteUserKb(t, fault) == TRUE /\ Do(delete_user_kb(Cur, t, fault))

\* An ingestion job ends at the provider.  The program learns of a job's end
\* only through the documents that carry its id (check_ingestion_status scans
\* by ingestion_job_id), so the end of a job no document carries is not followed.
JobEnds(j, status) ==
    /\ j \in DOMAIN jobs /\ jobs[j].status = "IN_PROGRESS"
    /\ \E d \in DOMAIN documents_table :
          documents_table[d].ingestion_job_id = j /\ documents_table[d].user_id # None
    /\ jobs' = [jobs EXCEPT ![j].status = status]
    /\ UNCHANGED <<user_kb_table, documents_table, s3, kbs, vector_buckets, events, nextDoc,
                   timeout_manager>>

\* A knowledge base is deleted at the provider, outside this program.
KbVanishes(kb_id) ==
    /\ kb_id \in DOMAIN kbs /\ kbs[kb_id].live
    /\ kbs' = [kbs EXCEPT ![kb_id].live = FALSE]
    /\ UNCHANGED <<user_kb_table, documents_table, s3, vector_buckets, jobs, events, nextDoc,
                   timeout_manager>>

\* The provider stops answering get_knowledge_base for a knowledge base that
\* exists (throttling, a network error), and answers again.
ProviderFails(kb_id) ==
    /\ kb_id \in DOMAIN kbs /\ kbs[kb_id].live /\ kbs[kb_id].up
    /\ kbs' = [kbs EXCEPT ![kb_id].up = FALSE]
    /\ UNCHANGED <<user_kb_table, documents_table, s3, vector_buckets, jobs, events, nextDoc,
                   timeout_manager>>

ProviderRecovers(kb_id) ==
    /\ kb_id \in DOMAIN kbs /\ ~kbs[kb_id].up
    /\ kbs' = [kbs EXCEPT ![kb_id].up = TRUE]
    /\ UNCHANGED <<user_kb_table, documents_table, s3, vector_buckets, jobs, events, nextDoc,
                   timeout_manager>>

Init ==
    /\ user_kb_table = <<>>
    /\ documents_table = <<>>
    /\ s3 = {}
    /\ kbs = <<>>
    /\ vector_buckets = {}
    /\ jobs = <<>>
    /\ events = <<>>
    /\ nextDoc = 1
    /\ timeout_manager = TimeoutManager(MaxRetries)

\* execute_with_retry, line 244: check_timeout at the head of an attempt
LoopCheck ==
    /\ timeout_manager.pc = "loop"
    /\ timeout_manager' = check_timeout(timeout_manager, "inner")
    /\ UNCHANGED <<user_kb_table, documents_table, s3, kbs, vector_buckets, jobs, events, nextDoc>>

\* execute_with_timeout, line 200: check_timeout before the operation
InnerCheck ==
    /\ timeout_manager.pc = "inner"
    /\ timeout_manager' = check_timeout(timeout_manager, "call")
    /\ UNCHANGED <<user_kb_table, documents_table, s3, kbs, vector_buckets, jobs, events, nextDoc>>

\* The operation is invoked and execute_with_retry handles what it does.
Invoke(outcome) ==
    /\ timeout_manager.pc = "call"
    /\ timeout_manager' = execute_with_retry(timeout_manager, outcome)
    /\ UNCHANGED <<user_kb_table, documents_table, s3, kbs, vector_buckets, jobs, events, nextDoc>>

\* time.time() passes start_time + operation_timeout while execute_with_retry runs.
TimePasses ==
    /\ timeout_manager.pc \in {"loop", "inner", "call"}
    /\ ~timeout_manager.exceeded
    /\ timeout_manager' = [timeout_manager EXCEPT !.exceeded = TRUE]
    /\ UNCHANGED <<user_kb_table, documents_table, s3, kbs, vector_buckets, jobs, events, nextDoc>>

\* ------------------------------------------------------------- specifications
\* The upload pipeline: tenant t1 uploads and manages its documents while its
\* knowledge base is provisioned; t2 calls on t1's documents.  Knowledge bases
\* are not deleted.
Next ==
    \/ \E f \in Filenames : ProcessDocument("t1", f, "none")
    \/ \E n \in Docs, fault \in {"none", "kb"} : Create(n, fault)
    \/ \E n \in Docs, bad \in SUBSET s3 : Complete(n, "none", bad, FALSE)
    \/ GetOrCreate("t1", "none", {})
    \/ ProcessPending("t1")
    \/ CheckIngestionStatus("t1")
    \/ \E n \in Docs, t \in Tenants : GetSyncStatus(n, t)
    \/ \E n \in Docs, t \in Tenants : DeleteDocument(n, t, "none")
    \/ \E j \in 1..MaxJobs, status \in {"COMPLETE", "FAILED"} : JobEnds(j, status)

Spec == Init /\ [][Next]_vars

\* Index provisioning: get_or_create, delete and first uploads while knowledge
\* bases are deleted, by delete_user_kb or at the provider.
NextKB ==
    \/ \E t \in Tenants, fault \in {"none", "kb"} : GetOrCreate(t, fault, {})
    \/ \E t \in Tenants : DeleteUserKb(t, "none")
    \/ \E k \in 1..MaxKBs : KbVanishes(k)
    \/ \E f \in Filenames : ProcessDocument("t1", f, "none")
    \/ \E n \in Docs : Create(n, "none")
    \/ \E n \in Docs : Complete(n, "none", {}, FALSE)

SpecKB == Init /\ [][NextKB]_vars

\* Index deletion: the tenants provision and delete their knowledge bases while
\* delete_vector_bucket or delete_item may raise, t1 uploads, and knowledge
\* bases are deleted at the provider.
NextDeleteKb ==
    \/ \E t \in Tenants : GetOrCreate(t, "none", {})
    \/ \E t \in Tenants, fault \in {"none", "bucket", "dynamodb"} : DeleteUserKb(t, fault)
    \/ \E k \in 1..MaxKBs : KbVanishes(k)
    \/ \E f \in Filenames : ProcessDocument("t1", f, "none")

SpecDeleteKb == Init /\ [][NextDeleteKb]_vars

\* Failures of provisioning and migration: the upload pipeline of t1 with the
\* calls that can raise raising: start_ingestion_job, lambda_client.invoke, the
\* steps of _create_user_kb, the copy_object of the migrator.
NextFaults ==
    \/ \E f \in Filenames, fault \in {"none", "ingest", "invoke"} : ProcessDocument("t1", f, fault)
    \/ \E n \in Docs, fault \in {"none", "kb", "ds"} : Create(n, fault)
    \/ \E n \in Docs, fault \in {"none", "put"}, bad \in SUBSET s3, trigFault \in BOOLEAN :
           Complete(n, fault, bad, trigFault)
    \/ \E fault \in {"none", "kb", "ds", "put"}, bad \in SUBSET s3 : GetOrCreate("t1", fault, bad)

SpecFaults == Init /\ [][NextFaults]_vars

\* Progress of the slow path: an asynchronous invocation that was accepted is
\* run by Lambda, and a handler that runs goes on to its end; nothing obliges a
\* tenant to upload or to call again.
HandlerRuns ==
    \/ \E n \in Docs, fault \in {"none", "kb", "kb_silent"} : Create(n, fault)
    \/ \E n \in Docs : StoreKb(n, "none", {}, FALSE)
    \/ \E n \in Docs : Move(n)
    \/ \E n \in Docs, trigFault \in BOOLEAN : Finish(n, trigFault)

NextLive ==
    \/ \E f \in Filenames, fault \in {"none", "invoke"} : ProcessDocument("t1", f, fault)
    \/ HandlerRuns
    \/ GetOrCreate("t1", "none", {})

SpecLive == Init /\ [][NextLive]_vars /\ WF_vars(HandlerRuns)

\* The handler among the other operations: the steps of create_and_process run
\* one at a time while t1 uploads, deletes and calls get_or_create.
NextRace ==
    \/ \E f \in Filenames : ProcessDocument("t1", f, "none")
    \/ \E n \in Docs : Create(n, "none")
    \/ \E n \in Docs, bad \in SUBSET s3 : StoreKb(n, "none", bad, FALSE)
    \/ \E n \in Docs : Move(n)
    \/ \E n \in Docs : Finish(n, FALSE)
    \/ \E n \in Docs : DeleteDocument(n, "t1", "none")
    \/ GetOrCreate("t1", "none", {})

SpecRace == Init /\ [][NextRace]_vars

\* Moves without deletion: the steps of create_and_process run one at a time
\* while t1 uploads and calls get_or_create, the migrator's copies raising or
\* not; no document is deleted.
NextMove ==
    \/ \E f \in Filenames : ProcessDocument("t1", f, "none")
    \/ \E n \in Docs : Create(n, "none")
    \/ \E n \in Docs, bad \in SUBSET s3 : StoreKb(n, "none", bad, FALSE)
    \/ \E n \in Docs : Move(n)
    \/ \E n \in Docs : Finish(n, FALSE)
    \/ \E bad \in SUBSET s3 : GetOrCreate("t1", "none", bad)

SpecMove == Init /\ [][NextMove]_vars

\* Provider outages: the tenants call get_or_create and t1 uploads while the
\* provider at times fails to answer get_knowledge_base and knowledge bases
\* are deleted at the provider.
NextOutage ==
    \/ \E t \in Tenants : GetOrCreate(t, "none", {})
    \/ \E f \in Filenames : ProcessDocument("t1", f, "none")
    \/ \E k \in 1..MaxKBs : KbVanishes(k)
    \/ \E k \in 1..MaxKBs : ProviderFails(k)
    \/ \E k \in 1..MaxKBs : ProviderRecovers(k)

SpecOutage == Init /\ [][NextOutage]_vars

\* Deletion: documents of t1 are uploaded and deleted, by t1 and on t2's
\* request, with delete_object or delete_item raising.
NextDelete ==
    \/ \E f \in Filenames : ProcessDocument("t1", f, "none")
    \/ \E n \in Docs : Create(n, "none")
    \/ \E n \in Docs : Complete(n, "none", {}, FALSE)
    \/ \E n \in Docs, t \in Tenants, fault \in {"none", "s3", "dynamodb"} : DeleteDocument(n, t, fault)

SpecDelete == Init /\ [][NextDelete]_vars

\* Reconciliation: check_ingestion_status and get_sync_status as functions of
\* what the tables and the provider hold.  Both tenants have a knowledge base
\* and documents whose ingestion is under way; job j belongs to KbOfJob(j).  The
\* documents are drawn, so that several of them may carry one ingestion_job_id:
\* the reconciler scans by ingestion_job_id and sync_status whatever wrote the
\* items, while _trigger_ingestion_job and _trigger_kb_ingestion write each job
\* id on one document.
KbOfTenant(t) == IF t = "t1" THEN 1 ELSE 2
KbOfJob(j) == IF j % 2 = 1 THEN 1 ELSE 2

UnderWay(t) ==
    {[sync_status |-> "uploaded", ingestion_job_id |-> 0]}
    \cup {[sync_status |-> x, ingestion_job_id |-> j] :
            x \in {"processing", "syncing"},
            j \in {i \in 1..MaxJobs : KbOfJob(i) = KbOfTenant(t)}}

DrawnDoc(n, t, u) ==
    [EmptyDoc EXCEPT !.user_id = t, !.filename = "report.pdf", !.upload_date = n,
                     !.s3_key = FinalKey(UserHash(t), DocId(n), "report.pdf"),
                     !.knowledge_base_id = KbOfTenant(t),
                     !.sync_status = u.sync_status, !.ingestion_job_id = u.ingestion_job_id]

DrawnTables ==
    LET choice == [Docs -> UNION {{<<t, u>> : u \in UnderWay(t)} : t \in Tenants}]
    IN  {[d \in {DocId(n) : n \in Docs} |-> DrawnDoc(d[2], c[d[2]][1], c[d[2]][2])] : c \in choice}

InitRec ==
    /\ user_kb_table = [t \in Tenants |->
          [EmptyKB EXCEPT !.knowledge_base_id = KbOfTenant(t), !.data_source_id = KbOfTenant(t),
                          !.vector_bucket_name = KbOfTenant(t), !.user_hash = UserHash(t),
                          !.status = "active"]]
    /\ kbs = [k \in {KbOfTenant(t) : t \in Tenants} |->
          [owner |-> IF k = 1 THEN "t1" ELSE "t2", live |-> TRUE, up |-> TRUE, bucket |-> k,
           prefix |-> <<"docs", IF k = 1 THEN "h1" ELSE "h2">>]]
    /\ vector_buckets = {KbOfTenant(t) : t \in Tenants}
    /\ jobs = [j \in 1..MaxJobs |-> [kb |-> KbOfJob(j), status |-> "IN_PROGRESS"]]
    /\ documents_table \in DrawnTables
    /\ s3 = {documents_table[d].s3_key : d \in DOMAIN documents_table}
    /\ events = <<>>
    /\ nextDoc = MaxDocs + 1
    /\ timeout_manager = TimeoutManager(MaxRetries)

NextRec ==
    \/ \E t \in Tenants : CheckIngestionStatus(t)
    \/ \E n \in Docs, t \in Tenants : GetSyncStatus(n, t)
    \/ \E j \in 1..MaxJobs, status \in {"COMPLETE", "FAILED"} : JobEnds(j, status)

SpecRec == InitRec /\ [][NextRec]_vars

\* Reconciliation with and without a tenant item: as SpecRec, and a tenant may
\* delete its knowledge base, which removes its item.
NextFrame ==
    \/ \E t \in Tenants : CheckIngestionStatus(t)
    \/ \E j \in 1..MaxJobs, status \in {"COMPLETE", "FAILED"} : JobEnds(j, status)
    \/ \E t \in Tenants : DeleteUserKb(t, "none")

SpecFrame == InitRec /\ [][NextFrame]_vars

\* Two tenants side by side: both upload, their handlers run and get_or_create
\* is called for either.
NextTenants ==
    \/ \E t \in Tenants, f \in Filenames : ProcessDocument(t, f, "none")
    \/ \E n \in Docs, fault \in {"none", "ds"} : Create(n, fault)
    \/ \E n \in Docs : Complete(n, "none", {}, FALSE)
    \/ \E t \in Tenants : GetOrCreate(t, "none", {})

SpecTenants == Init /\ [][NextTenants]_vars

\* TimeoutManager.execute_with_retry on its own: one call, for every
\* max_retries up to MaxRetries, every behaviour of the operation and of the clock.
InitRetry ==
    /\ user_kb_table = <<>>
    /\ documents_table = <<>>
    /\ s3 = {}
    /\ kbs = <<>>
    /\ vector_buckets = {}
    /\ jobs = <<>>
    /\ events = <<>>
    /\ nextDoc = 1
    /\ timeout_manager \in {TimeoutManager(m) : m \in 0..MaxRetries}

NextRetry ==
    \/ LoopCheck
    \/ InnerCheck
    \/ \E outcome \in Outcomes : Invoke(outcome)
    \/ TimePasses

SpecRetry == InitRetry /\ [][NextRetry]_vars

\* ------------------------------------------------------------- claims
Quiescent(t) == \A n \in DOMAIN events : events[n].user_id = t => events[n].pc \in {"done", "failed"}
LiveKbsOf(t) == {k \in DOMAIN kbs : kbs[k].owner = t /\ kbs[k].live}
HasVerifiedKb(st, t) ==
    /\ t \in DOMAIN st.ukb
    /\ st.ukb[t].knowledge_base_id \in DOMAIN st.kbs
    /\ st.kbs[st.ukb[t].knowledge_base_id].live
StartsWith(key, prefix) == Len(key) > 0 /\ key[1] = prefix

\* C1: for every tenant T, once the get_or_create calls and create_and_process
\* handler runs for T have finished and one of them provisioned an index, exactly
\* one TenantIndex record exists for T and every provider index created for T and
\* not deleted is the one that record references.
C1_NoDuplicateProvisioning ==
    \A t \in Tenants :
        (Quiescent(t) /\ LiveKbsOf(t) # {}) =>
            /\ t \in DOMAIN user_kb_table
            /\ LiveKbsOf(t) = {user_kb_table[t].knowledge_base_id}

\* C2: for every document D, once sync_status(D) is completed or failed, no
\* operation other than a new upload of D makes it a non-terminal value.
C2_NoRegressionFromTerminal ==
    [][\A d \in DOMAIN documents_table :
          (documents_table[d].sync_status \in Terminal /\ d \in DOMAIN documents_table')
              => documents_table'[d].sync_status \in Terminal]_vars
\* C3: for every tenant T, when get_or_create(T) succeeds and is called again
\* with nothing in between and the provider index still there, the second call
\* returns the same index_id and leaves the provider and the stores as they were
\* (it creates no provider resource), whatever would fail in a creation.
C3_GetOrCreateIdempotent ==
    \A t \in Tenants, fault \in {"none", "kb", "ds", "put"} :
        LET r1 == get_or_create_user_kb(Cur, t, "none", {}, FALSE)
            r2 == get_or_create_user_kb(r1.st, t, fault, {}, FALSE)
        IN  r1.ret.ok =>
                /\ r2.ret.ok
                /\ r2.ret.kb = r1.ret.kb
                /\ r2.st.kbs = r1.st.kbs /\ r2.st.vb = r1.st.vb
                /\ r2.st = r1.st

\* C3 happens: get_or_create has provisioned for a tenant that never uploads,
\* and the index its item references is still there.
C3_Witness ==
    /\ HasVerifiedKb(Cur, "t2")
    /\ get_or_create_user_kb(Cur, "t2", "none", {}, FALSE).ret.kb = user_kb_table["t2"].knowledge_base_id

\* C4: for every tenant T, reconcile(T) called twice in a row with no ingestion
\* job changing state in between: the second call changes no document item and
\* returns count 0.
C4_ReconcileIdempotent ==
    \A t \in Tenants :
        LET r1 == check_ingestion_status(Cur, t)
            r2 == check_ingestion_status(r1.st, t)
        IN  /\ r2.st = r1.st
            /\ r2.ret.count = 0
            /\ r2.ret.ok = r1.ret.ok

\* C4 happens: a reconcile has completed a document of a COMPLETE job, and the
\* job is still among those the next reconcile lists.
C4_Witness ==
    \E d \in DOMAIN documents_table :
        /\ documents_table[d].sync_status = "completed"
        /\ documents_table[d].ingestion_job_id \in ListIngestionJobs(jobs, KbOfTenant(documents_table[d].user_id))
        /\ jobs[documents_table[d].ingestion_job_id].status = "COMPLETE"
\* C5: for every document D uploaded on the slow path, once its create_and_process
\* handler has completed successfully: no blob exists at D's pending/ key, and
\* D's item, as long as there is one, holds docs/{tenant_hash}/{document_id}/{filename}
\* as storage key, in this state and in every later one.
C5_MovedOutOfPending ==
    \A n \in DOMAIN events :
        events[n].pc = "done" =>
            LET e == events[n]
            IN  /\ e.temp_s3_key \notin s3
                /\ e.document_id \in DOMAIN documents_table =>
                       /\ documents_table[e.document_id].s3_key =
                              FinalKey(UserHash(e.user_id), e.document_id, e.filename)
                       /\ ~StartsWith(documents_table[e.document_id].s3_key, "pending")

\* C5 happens: a handler has completed, the item of its document is there, and
\* the blob lies at the key the item holds.
C5_Witness ==
    \E n \in DOMAIN events :
        /\ events[n].pc = "done"
        /\ events[n].document_id \in DOMAIN documents_table
        /\ documents_table[events[n].document_id].s3_key \in s3
        /\ documents_table[events[n].document_id].sync_status = "processing"
\* C6: for every document D and tenant T other than D's owner, delete_document(D, T)
\* fails (the result differs from the one of a deletion that succeeded) and
\* leaves D's blob, D's item and the provider's jobs as they were, whatever the
\* stores would do when written.
C6_DeleteChecksOwner ==
    \A n \in Docs, t \in Tenants, fault \in {"none", "s3", "dynamodb"} :
        (DocId(n) \in DOMAIN documents_table /\ documents_table[DocId(n)].user_id # t) =>
            LET r == delete_document(Cur, n, t, fault)
            IN  /\ ~r.ret.ok
                /\ r.ret # delete_document(Cur, n, documents_table[DocId(n)].user_id, "none").ret
                /\ r.st.s3 = s3 /\ r.st.docs = documents_table /\ r.st.jobs = jobs
                /\ r.st = Cur

\* C6 happens: a document of t1 with its blob is there for t2 to ask for its
\* deletion, and its owner could delete it.
C6_Witness ==
    \E n \in Docs :
        /\ DocId(n) \in DOMAIN documents_table
        /\ documents_table[DocId(n)].user_id = "t1"
        /\ documents_table[DocId(n)].s3_key \in s3
        /\ ~delete_document(Cur, n, "t2", "none").ret.ok
        /\ delete_document(Cur, n, "t1", "none").ret.ok
\* What Scenario A says of a document whose handler stands at one of the given
\* positions: get_sync_status answers processing or a later status, the tenant's
\* list holds the document with a storage key under docs/, and when it is the
\* only upload so far the list holds exactly this one document.
ScenarioA_After(pcs) ==
    \A n \in DOMAIN events :
        LET e == events[n]
            d == e.document_id
        IN  (e.pc \in pcs /\ d \in DOMAIN documents_table /\ documents_table[d].user_id = e.user_id) =>
                /\ get_sync_status(Cur, n, e.user_id).ret.ok
                /\ get_sync_status(Cur, n, e.user_id).ret.status \in
                       {"processing", "syncing", "completed", "failed"}
                /\ d \in Range(get_user_documents(Cur, e.user_id))
                /\ StartsWith(documents_table[d].s3_key, "docs")
                /\ nextDoc = 2 => get_user_documents(Cur, e.user_id) = <<d>>

\* A tenant without an item uploads: the answer is 'creating_knowledge_base' (the
\* spec's creating_index) and the create_and_process task is dispatched.
ScenarioA_Response ==
    \A t \in Tenants, f \in Filenames :
        t \notin DOMAIN user_kb_table =>
            LET r == process_document(Cur, t, f, "none")
            IN  /\ r.ret.ok /\ r.ret.status = "creating_knowledge_base"
                /\ nextDoc \in DOMAIN r.st.events
                /\ r.st.events[nextDoc].pc = "queued"

C8_FastPathIffVerified ==
    \A t \in Tenants, f \in Filenames, fault \in {"none", "ingest"} :
        LET r == process_document(Cur, t, f, fault)
            d == DocId(nextDoc)
            final == FinalKey(UserHash(t), d, f)
        IN  /\ HasVerifiedKb(Cur, t) =>
                /\ r.ret.ok /\ r.ret.status = "processing"
                /\ r.st.s3 = s3 \cup {final}
                /\ r.st.docs[d].s3_key = final
                /\ r.st.events = events
            /\ (r.st.events # events \/ PendingObjects(r.st.s3, t) # PendingObjects(s3, t)) =>
                ~HasVerifiedKb(Cur, t)

\* C8 happens: an upload went the fast path (no task was dispatched for it, its
\* blob lies under docs/ and its ingestion was started), and the tenant's
\* knowledge base is still verified for the next one.
C8_Witness ==
    \E n \in Docs :
        /\ n \notin DOMAIN events
        /\ DocId(n) \in DOMAIN documents_table
        /\ documents_table[DocId(n)].sync_status = "syncing"
        /\ documents_table[DocId(n)].s3_key = FinalKey(UserHash("t1"), DocId(n), "report.pdf")
        /\ documents_table[DocId(n)].s3_key \in s3
        /\ HasVerifiedKb(Cur, "t1")
\* The item of T references a knowledge base the provider no longer has.
Stale(t) ==
    /\ t \in DOMAIN user_kb_table
    /\ user_kb_table[t].knowledge_base_id # 0
    /\ \/ user_kb_table[t].knowledge_base_id \notin DOMAIN kbs
       \/ ~kbs[user_kb_table[t].knowledge_base_id].live

\* C9: for every tenant T whose item references a knowledge base the provider
\* reports gone, get_or_create(T) provisions a knowledge base that did not exist
\* before, returns its id, and the item afterwards holds this id, which differs
\* from the stale one; when the provisioning fails the stale item is removed
\* all the same.
C9_StaleRecordHealed ==
    \A t \in Tenants :
        Stale(t) =>
            LET old == user_kb_table[t].knowledge_base_id
                r == get_or_create_user_kb(Cur, t, "none", {}, FALSE)
                new == r.ret.kb
            IN  /\ r.ret.ok
                /\ new # old /\ new \notin DOMAIN kbs
                /\ new \in DOMAIN r.st.kbs /\ r.st.kbs[new].live /\ r.st.kbs[new].owner = t
                /\ t \in DOMAIN r.st.ukb /\ r.st.ukb[t].knowledge_base_id = new
                /\ \A fault \in {"kb", "ds", "put"} :
                       LET q == get_or_create_user_kb(Cur, t, fault, {}, FALSE)
                       IN  ~q.ret.ok /\ t \notin DOMAIN q.st.ukb

\* C9 happens: a knowledge base of t2 vanished at the provider (its vector bucket
\* is still there, so delete_user_kb did not remove it), and t2's item now
\* references another knowledge base, which exists.
C9_Witness ==
    \E k \in DOMAIN kbs :
        /\ kbs[k].owner = "t2" /\ ~kbs[k].live /\ kbs[k].bucket \in vector_buckets
        /\ HasVerifiedKb(Cur, "t2")
        /\ user_kb_table["t2"].knowledge_base_id # k
\* The documents in processing or syncing that carry ingestion job j
AwaitingJob(j) ==
    {d \in DOMAIN documents_table :
        /\ documents_table[d].ingestion_job_id = j
        /\ documents_table[d].sync_status \in {"processing", "syncing"}}

\* The jobs of T's knowledge base that a reconcile of T observes as COMPLETE
ObservedComplete(t) ==
    {j \in ListIngestionJobs(jobs, user_kb_table[t].knowledge_base_id) : jobs[j].status = "COMPLETE"}

\* C10: for every tenant T and every ingestion job J that one reconcile of T
\* observes as COMPLETE, the call sets every document that carries J and is in
\* processing or syncing to completed, and the count it returns is the number
\* of these documents, over the jobs observed (2 for two documents of one job).
C10_ReconcileCompletesAll ==
    \A t \in Tenants :
        HasVerifiedKb(Cur, t) =>
            LET r == check_ingestion_status(Cur, t)
            IN  /\ r.ret.ok
                /\ \A j \in ObservedComplete(t) : \A d \in AwaitingJob(j) :
                       r.st.docs[d].sync_status = "completed"
                /\ r.ret.count = Cardinality(UNION {AwaitingJob(j) : j \in ObservedComplete(t)})
                /\ (\E j \in ObservedComplete(t) : Cardinality(AwaitingJob(j)) = 2
                        /\ \A i \in ObservedComplete(t) \ {j} : AwaitingJob(i) = {})
                       => r.ret.count = 2

\* C10 happens: two documents carry one job, which is COMPLETE, and a reconcile
\* has set both to completed.
C10_Witness ==
    \E d1, d2 \in DOMAIN documents_table :
        /\ d1 # d2
        /\ documents_table[d1].ingestion_job_id = documents_table[d2].ingestion_job_id
        /\ documents_table[d1].ingestion_job_id \in DOMAIN jobs
        /\ jobs[documents_table[d1].ingestion_job_id].status = "COMPLETE"
        /\ documents_table[d1].sync_status = "completed"
        /\ documents_table[d2].sync_status = "completed"
\* C11: for every document D and its owner T, delete_document(D, T) whose blob
\* delete raises removes D's item and reports success, and when T has a
\* knowledge base a resync ingestion job is started for it; the job is requested
\* after the deletion of the item: when delete_item raises, the call fails with
\* the item kept and no job requested.
C11_DeleteSurvivesBlobError ==
    \A n \in Docs, t \in Tenants :
        (DocId(n) \in DOMAIN documents_table /\ documents_table[DocId(n)].user_id = t) =>
            LET r == delete_document(Cur, n, t, "s3")
                q == delete_document(Cur, n, t, "dynamodb")
            IN  /\ r.ret.ok
                /\ DocId(n) \notin DOMAIN r.st.docs
                /\ r.st.s3 = s3
                /\ HasVerifiedKb(Cur, t) =>
                       \E j \in DOMAIN r.st.jobs \ DOMAIN jobs :
                           /\ r.st.jobs[j].kb = user_kb_table[t].knowledge_base_id
                           /\ r.st.jobs[j].status = "IN_PROGRESS"
                /\ ~HasVerifiedKb(Cur, t) => r.st.jobs = jobs
                /\ ~q.ret.ok /\ DocId(n) \in DOMAIN q.st.docs /\ q.st.jobs = jobs

\* C11 happens: the only document uploaded was deleted with its blob left behind
\* under docs/, and a third job, the resync, follows the two of its handler.
C11_Witness ==
    /\ nextDoc = 2
    /\ DocId(1) \notin DOMAIN documents_table
    /\ FinalKey(UserHash("t1"), DocId(1), "report.pdf") \in s3
    /\ HasVerifiedKb(Cur, "t1")
    /\ Cardinality(DOMAIN jobs) = 3
    /\ jobs[3].kb = user_kb_table["t1"].knowledge_base_id
\* C12: every document whose item holds sync_status = creating_knowledge_base
\* leaves this status: its handler completes or fails it, or it is deleted.
C12_NotStuckInCreating ==
    \A n \in Docs :
        (DocId(n) \in DOMAIN documents_table
            /\ documents_table[DocId(n)].sync_status = "creating_knowledge_base")
        ~> (DocId(n) \notin DOMAIN documents_table
            \/ documents_table[DocId(n)].sync_status # "creating_knowledge_base")
\* C13: for every document D of tenant T whose status is not terminal,
\* get_sync_status(D, T) does what a reconcile of T does to the tables and
\* returns the status D has after it.
C13_StatusCheckReconciles ==
    \A n \in Docs, t \in Tenants :
        (DocId(n) \in DOMAIN documents_table
            /\ documents_table[DocId(n)].user_id = t
            /\ documents_table[DocId(n)].sync_status \in NonTerminal) =>
            LET r == get_sync_status(Cur, n, t)
                rec == check_ingestion_status(Cur, t)
            IN  /\ r.st = rec.st
                /\ r.ret.ok
                /\ r.ret.status = rec.st.docs[DocId(n)].sync_status
\* C14: for every tenant T, in every state, list_documents(T) returns each item
\* whose user_id is T once and no other item (none of another tenant, none
\* without a user_id), a later upload before an earlier one.
C14_ListIsolatedNewestFirst ==
    \A t \in Tenants :
        LET l == get_user_documents(Cur, t)
        IN  /\ Range(l) = {d \in DOMAIN documents_table : documents_table[d].user_id = t}
            /\ Len(l) = Cardinality(Range(l))
            /\ \A i \in DOMAIN l : documents_table[l[i]].user_id = t
            /\ \A i, j \in DOMAIN l :
                   i < j => documents_table[l[i]].upload_date > documents_table[l[j]].upload_date

\* C14 happens: t1 has uploaded two documents, listed the second first, the
\* table also holds an item without a user_id, and t2's list is empty.
C14_Witness ==
    /\ get_user_documents(Cur, "t1") = <<DocId(2), DocId(1)>>
    /\ get_user_documents(Cur, "t2") = <<>>
    /\ \E d \in DOMAIN documents_table : documents_table[d].user_id = None
\* An ingestion job is started for item d in this step: a job id is written on it.
JobStartedFor(d) ==
    /\ d \in DOMAIN documents_table'
    /\ documents_table'[d].ingestion_job_id # 0
    /\ d \in DOMAIN documents_table =>
           documents_table[d].ingestion_job_id # documents_table'[d].ingestion_job_id

\* The migrator moved document d in this step: it made it ready for ingestion.
MigratedInStep(d) ==
    /\ d \in DOMAIN documents_table'
    /\ documents_table'[d].sync_status = "ready_for_ingestion"
    /\ d \in DOMAIN documents_table => documents_table[d].sync_status # "ready_for_ingestion"

\* C15: whenever an ingestion job is started for a document D, by the fast
\* path, by the handler or as the migrator's batch that moved D, D's item holds
\* a key under docs/{tenant_hash}/ and the blob is there; an item that holds a
\* job id never holds a key under pending/.
C15_FinalKeyBeforeIngestion ==
    [][\A n \in Docs :
          LET d == DocId(n)
          IN  (JobStartedFor(d) \/ MigratedInStep(d)) =>
                  /\ StartsWith(documents_table'[d].s3_key, "docs")
                  /\ documents_table'[d].s3_key[2] = UserHash("t1")
                  /\ documents_table'[d].s3_key \in s3'
                  /\ \A e \in DOMAIN documents_table' :
                         documents_table'[e].ingestion_job_id # 0 =>
                             ~StartsWith(documents_table'[e].s3_key, "pending")]_vars
\* The jobs an operation started: those of the state after that were not before
JobsStarted(before, after) == DOMAIN after.jobs \ DOMAIN before.jobs

\* C16: for every tenant T with a knowledge base, a migration of T's pending
\* documents starts one ingestion job, for that knowledge base, when at least one
\* blob lies under pending/{T}/, however many there are and whichever of them
\* fail to be copied, and starts none and changes nothing when there is none;
\* the same holds of the migration that get_or_create runs for a tenant
\* without an item.
C16_OneBatchJob ==
    \A t \in Tenants :
        LET pending == PendingObjects(s3, t)
            g == get_or_create_user_kb(Cur, t, "none", {}, FALSE)
        IN  /\ HasVerifiedKb(Cur, t) =>
                \A bad \in SUBSET pending :
                    LET r == _process_pending_documents(Cur, t, user_kb_table[t], bad, FALSE)
                        started == JobsStarted(Cur, r)
                    IN  /\ Cardinality(started) = IF pending = {} THEN 0 ELSE 1
                        /\ \A j \in started : r.jobs[j].kb = user_kb_table[t].knowledge_base_id
                        /\ pending = {} => r = Cur
            /\ t \notin DOMAIN user_kb_table =>
                /\ Cardinality(JobsStarted(Cur, g.st)) = IF pending = {} THEN 0 ELSE 1
                /\ \A j \in JobsStarted(Cur, g.st) : g.st.jobs[j].kb = g.ret.kb

\* C16 happens: two documents uploaded on the slow path were migrated as one
\* batch, and one job is all the provider was asked for.
C16_Witness ==
    /\ \A n \in {1, 2} :
           /\ DocId(n) \in DOMAIN documents_table
           /\ documents_table[DocId(n)].sync_status = "ready_for_ingestion"
    /\ Cardinality(DOMAIN jobs) = 1
    /\ \E d \in DOMAIN documents_table : d[1] = "pending_documents_batch"
\* The documents a migration moved: their blob went from pending/ to the final key
MigratedBy(t, after) ==
    {k \in PendingObjects(s3, t) :
        k \notin after.s3 /\ FinalKey(UserHash(t), k[3], k[4]) \in after.s3}

\* C17: for every tenant T with a knowledge base, a migration of T's pending
\* documents adds to T's document_count the number of documents it moved,
\* leaving out those whose copy failed.
C17_CountsMigratedOnly ==
    \A t \in Tenants :
        HasVerifiedKb(Cur, t) =>
            \A bad \in SUBSET PendingObjects(s3, t) :
                LET r == _process_pending_documents(Cur, t, user_kb_table[t], bad, FALSE)
                IN  r.ukb[t].document_count =
                        user_kb_table[t].document_count + Cardinality(MigratedBy(t, r))
\* C18: for every tenant T with a knowledge base and every set of T's pending
\* blobs whose migration fails, a migration still moves every other pending
\* blob of T: it lies at docs/{tenant_hash}/{document_id}/{filename} and no
\* longer under pending/, and its item holds that key and ready_for_ingestion;
\* the blobs that failed stay where they were.
C18_MigrationContinuesOnError ==
    \A t \in Tenants :
        HasVerifiedKb(Cur, t) =>
            \A bad \in SUBSET PendingObjects(s3, t) :
                LET r == _process_pending_documents(Cur, t, user_kb_table[t], bad, FALSE)
                IN  /\ \A k \in PendingObjects(s3, t) \ bad :
                           LET final == FinalKey(UserHash(t), k[3], k[4])
                           IN  /\ k \notin r.s3 /\ final \in r.s3
                               /\ r.docs[k[3]].s3_key = final
                               /\ r.docs[k[3]].sync_status = "ready_for_ingestion"
                    /\ \A k \in bad : k \in r.s3

\* C18 happens: two documents were pending when get_or_create provisioned and
\* migrated (no handler has run, and an upload after the item was stored would
\* not have gone to pending/): the copy of document 1 failed and its blob is
\* still under pending/, while document 2 was moved and made ready for ingestion.
C18_Witness ==
    /\ HasVerifiedKb(Cur, "t1")
    /\ \A n \in {1, 2} : n \in DOMAIN events /\ events[n].pc = "queued"
    /\ events[1].temp_s3_key \in s3
    /\ documents_table[DocId(1)].sync_status = "creating_knowledge_base"
    /\ documents_table[DocId(2)].sync_status = "ready_for_ingestion"
    /\ documents_table[DocId(2)].s3_key = FinalKey(UserHash("t1"), DocId(2), "report.pdf")
    /\ documents_table[DocId(2)].s3_key \in s3
    /\ PendingKey("t1", 2, "report.pdf") \notin s3

\* C19: whenever get_or_create has to provision for a tenant T (no item, or a
\* stale one) and a step after the creation of the vector bucket raises (the
\* knowledge base, the data source or the put_item of the record), the call
\* reports the error, the bucket of the attempt is gone again, and T has no
\* item in USER_KB_TABLE afterwards.
C19_FailedCreateCleansUp ==
    \A t \in Tenants, fault \in {"kb", "ds", "put"} :
        (~HasVerifiedKb(Cur, t) /\ (t \in DOMAIN user_kb_table => user_kb_table[t].knowledge_base_id # 0)) =>
            LET r == get_or_create_user_kb(Cur, t, fault, {}, FALSE)
            IN  /\ ~r.ret.ok
                /\ t \notin DOMAIN r.st.ukb
                /\ NewKbId(kbs) \notin r.st.vb
                /\ r.st.vb \subseteq vector_buckets

\* C19 happens: before any upload, one get_or_create of t1 failed at the data
\* source and one at put_item: both knowledge bases exist at the provider, their
\* buckets do not, and t1 has no item.
C19_Witness ==
    /\ nextDoc = 1
    /\ "t1" \notin DOMAIN user_kb_table
    /\ \E k1, k2 \in DOMAIN kbs :
          /\ kbs[k1].owner = "t1" /\ kbs[k1].prefix = <<>>
          /\ kbs[k2].owner = "t1" /\ kbs[k2].prefix = <<"docs", UserHash("t1")>>
          /\ {kbs[k1].bucket, kbs[k2].bucket} \cap vector_buckets = {}

\* C20: delete(T) on a tenant without an item reports success and touches
\* nothing.  On a tenant with a verified knowledge base it reports success,
\* the knowledge base is deleted, the vector bucket is gone unless its deletion
\* raised, and the item is gone unless its deletion raised; and whenever a
\* delete(T) has reported success, a second delete(T) reports success too.
C20_DeleteOrderedAndRepeatable ==
    \A t \in Tenants, fault \in {"none", "bucket", "dynamodb"} :
        LET r == delete_user_kb(Cur, t, fault)
        IN  /\ t \notin DOMAIN user_kb_table => r.ret.ok /\ r.st = Cur
            /\ HasVerifiedKb(Cur, t) =>
                   /\ r.ret.ok
                   /\ ~r.st.kbs[user_kb_table[t].knowledge_base_id].live
                   /\ fault # "bucket" => user_kb_table[t].vector_bucket_name \notin r.st.vb
                   /\ fault # "dynamodb" => t \notin DOMAIN r.st.ukb
            /\ r.ret.ok =>
                   \A again \in {"none", "bucket", "dynamodb"} : delete_user_kb(r.st, t, again).ret.ok

\* C21: the entrypoint answers 400 and leaves every store and the provider as
\* they were when the event carries no user_id; it answers 400 for an operation
\* it does not know; and it answers 200 only when the operation it dispatched
\* reported success.
C21_StatusCodeReflectsOutcome ==
    \A operation \in Operations, user_id \in Tenants \cup {None}, n \in Docs,
       fault \in {"none", "kb", "put", "dynamodb"} :
        LET r == lambda_handler(Cur, operation, user_id, n, fault)
        IN  /\ user_id = None => r.statusCode = 400 /\ r.st = Cur
            /\ (user_id # None /\ operation = "unknown") => r.statusCode = 400
            /\ r.statusCode = 200 => r.ok

\* C22: for every tenant T with a verified knowledge base, an upload whose
\* start_ingestion_job raises is acknowledged as successful, starts no job, and
\* leaves the document item failed with the error captured; an upload whose
\* start_ingestion_job succeeds leaves the item in syncing with the id of the
\* job just started, a job of T's knowledge base.
C22_IngestionDecoupledFromUpload ==
    \A t \in Tenants, f \in Filenames :
        HasVerifiedKb(Cur, t) =>
            LET d == DocId(nextDoc)
                bad == process_document(Cur, t, f, "ingest")
                good == process_document(Cur, t, f, "none")
                started == DOMAIN good.st.jobs \ DOMAIN jobs
            IN  /\ bad.ret.ok
                /\ bad.st.jobs = jobs
                /\ bad.st.docs[d].sync_status = "failed"
                /\ bad.st.docs[d].error_message # None
                /\ good.ret.ok
                /\ good.st.docs[d].sync_status = "syncing"
                /\ started = {good.st.docs[d].ingestion_job_id}
                /\ \A j \in started : good.st.jobs[j].kb = user_kb_table[t].knowledge_base_id

\* C22 happens: of two uploads on the fast path, the first could not start its
\* ingestion and is failed with the error, the second carries the job started.
C22_Witness ==
    /\ DOMAIN events = {}
    /\ {DocId(1), DocId(2)} \subseteq DOMAIN documents_table
    /\ documents_table[DocId(1)].sync_status = "failed"
    /\ documents_table[DocId(1)].error_message # None
    /\ documents_table[DocId(1)].s3_key \in s3
    /\ documents_table[DocId(2)].sync_status = "syncing"
    /\ documents_table[DocId(2)].ingestion_job_id \in DOMAIN jobs

\* C23: in every step, a tenant whose item references a knowledge base the
\* provider still has, and who has an item after the step, has the same
\* knowledge_base_id in it.
C23_VerifiedIndexNeverReplaced ==
    [][\A t \in Tenants :
          (HasVerifiedKb(Cur, t) /\ t \in DOMAIN user_kb_table') =>
              user_kb_table'[t].knowledge_base_id = user_kb_table[t].knowledge_base_id]_vars

\* C24: for every tenant T with a verified knowledge base and every job of it
\* that a reconcile of T lists as FAILED, the call leaves every document that
\* carries the job's id and was in processing failed, with the failure reasons
\* the provider reports for that job as its message or error message.
C24_FailedJobCopiesReason ==
    \A t \in Tenants :
        HasVerifiedKb(Cur, t) =>
            LET r == check_ingestion_status(Cur, t)
                listed == ListIngestionJobs(jobs, user_kb_table[t].knowledge_base_id)
            IN  \A j \in listed, d \in DOMAIN documents_table :
                    (jobs[j].status = "FAILED" /\ documents_table[d].ingestion_job_id = j
                     /\ documents_table[d].sync_status = "processing") =>
                        /\ r.st.docs[d].sync_status = "failed"
                        /\ FailureReasons(j) \in {r.st.docs[d].message, r.st.docs[d].error_message}

\* Two first uploads of t1 were handled and each handler created its own
\* knowledge base.
DoubleCreate ==
    /\ {1, 2} \subseteq DOMAIN events
    /\ \A n \in {1, 2} : events[n].user_id = "t1" /\ events[n].pc = "done"
    /\ events[1].user_kb_info.knowledge_base_id # events[2].user_kb_info.knowledge_base_id

\* C25: after a double create for t1, the item of t1 references the knowledge
\* base of one of the two handlers, and each of the two documents that is in
\* processing with an ingestion job that has ended at the provider is found
\* completed or failed by a status check.
C25_DoubleCreateReconciled ==
    DoubleCreate =>
        /\ "t1" \in DOMAIN user_kb_table =>
               user_kb_table["t1"].knowledge_base_id \in
                   {events[n].user_kb_info.knowledge_base_id : n \in {1, 2}}
        /\ \A n \in {1, 2} :
               LET d == DocId(n)
               IN  (/\ d \in DOMAIN documents_table
                    /\ documents_table[d].sync_status = "processing"
                    /\ documents_table[d].ingestion_job_id \in DOMAIN jobs
                    /\ jobs[documents_table[d].ingestion_job_id].status \in {"COMPLETE", "FAILED"}) =>
                       get_sync_status(Cur, n, "t1").ret.status \in Terminal

\* C26: for every document whose create_and_process invocation has completed
\* and whose blob lies at the final key and no longer at the temp key, a second
\* run of the invocation succeeds, does not leave the document failed, leaves
\* s3_key at the final key with the blob there, and leaves the tenant's item
\* with the knowledge_base_id it had.
C26_HandlerRerunIdempotent ==
    \A n \in DOMAIN events :
        LET e == events[n]
            d == e.document_id
            final == FinalKey(UserHash(e.user_id), d, e.filename)
            r == create_and_process_document(Cur, n, "none", {}, FALSE)
        IN  (/\ e.pc = "done" /\ d \in DOMAIN documents_table
             /\ final \in s3 /\ e.temp_s3_key \notin s3
             /\ e.user_id \in DOMAIN user_kb_table) =>
                /\ r.ret.ok
                /\ r.st.docs[d].sync_status # "failed"
                /\ r.st.docs[d].s3_key = final /\ final \in r.st.s3
                /\ e.user_id \in DOMAIN r.st.ukb
                /\ r.st.ukb[e.user_id].knowledge_base_id = user_kb_table[e.user_id].knowledge_base_id

\* C27: for every tenant T with a verified knowledge base and every document of
\* T in processing or syncing whose ingestion job is among the jobs a reconcile
\* of T lists, a reconcile of T leaves the document failed when the job has
\* ended FAILED and completed when it has ended COMPLETE.
C27_EndedJobReconciled ==
    \A t \in Tenants :
        HasVerifiedKb(Cur, t) =>
            LET r == check_ingestion_status(Cur, t)
                listed == ListIngestionJobs(jobs, user_kb_table[t].knowledge_base_id)
            IN  \A d \in UserDocumentsIndex(documents_table, t) :
                    (/\ documents_table[d].sync_status \in {"processing", "syncing"}
                     /\ documents_table[d].ingestion_job_id \in listed) =>
                        LET status == jobs[documents_table[d].ingestion_job_id].status
                        IN  /\ status = "FAILED" => r.st.docs[d].sync_status = "failed"
                            /\ status = "COMPLETE" => r.st.docs[d].sync_status = "completed"

\* C28: for every document, caller and failure, a delete_document that reports
\* success has removed the item; and when delete_item raises on a document of
\* the caller, the call reports failure, the item is still there and no
\* ingestion job was started.
C28_SuccessNeedsItemDeleted ==
    \A n \in Docs, t \in Tenants, fault \in {"none", "s3", "dynamodb"} :
        LET d == DocId(n)
            r == delete_document(Cur, n, t, fault)
        IN  /\ r.ret.ok => (d \in DOMAIN documents_table /\ d \notin DOMAIN r.st.docs)
            /\ (fault = "dynamodb" /\ d \in DOMAIN documents_table
                 /\ documents_table[d].user_id = t) =>
                    /\ ~r.ret.ok
                    /\ d \in DOMAIN r.st.docs
                    /\ r.st.jobs = jobs

\* C28 happens: the handler of document 1 has completed and a delete of the
\* document got as far as delete_item, which raised: the blob is gone, the item
\* is still there, and the two jobs of the handler are all there are.
C28_Witness ==
    /\ 1 \in DOMAIN events /\ events[1].pc = "done"
    /\ DocId(1) \in DOMAIN documents_table
    /\ documents_table[DocId(1)].s3_key = FinalKey(UserHash("t1"), DocId(1), "report.pdf")
    /\ documents_table[DocId(1)].s3_key \notin s3
    /\ nextDoc = 2
    /\ HasVerifiedKb(Cur, "t1")
    /\ Cardinality(DOMAIN jobs) = 2

\* C29: in every state of an execute_with_retry, the operation has been invoked
\* at most max_retries + 1 times; no invocation follows one that raised
\* TimeoutError or one that returned; a call that returned did so with the
\* result of its last invocation; and a call that raised raised TimeoutError,
\* or else every one of the max_retries + 1 attempts failed and the exception
\* raised is that of the last.
C29_RetryDiscipline ==
    LET tm == timeout_manager
        calls == Len(tm.log)
    IN  /\ calls <= tm.max_retries + 1
        /\ \A i \in 1..(calls - 1) : tm.log[i] \notin {"ok", "TimeoutError"}
        /\ (calls > 0 /\ tm.log[calls] \in {"ok", "TimeoutError"}) => tm.pc \in {"returned", "raised"}
        /\ tm.pc = "returned" => (calls > 0 /\ tm.log[calls] = "ok" /\ tm.result = "ok")
        /\ tm.pc = "raised" =>
               \/ tm.result = "TimeoutError"
               \/ calls = tm.max_retries + 1 /\ tm.result = tm.log[calls]

\* C29 happens: with max_retries = 2 the operation failed three times, and the
\* exception of the third attempt, not of the first, was raised.
C29_Witness ==
    /\ timeout_manager.max_retries = 2
    /\ timeout_manager.log = <<"ValueError", "ValueError", "KeyError">>
    /\ timeout_manager.pc = "raised"
    /\ timeout_manager.result = "KeyError"

\* C30: every knowledge base that has a data source has it scoped to
\* docs/{user_hash} of its owner; every object in the bucket is the blob of a
\* document and lies under docs/{user_hash}/ or pending/{user_id}/ of that
\* document's tenant; and a migration for a tenant T, on its own or within
\* get_or_create, leaves the pending objects, the docs/ objects and the items
\* of every other tenant as they were.
C30_TenantPathIsolation ==
    /\ \A k \in DOMAIN kbs :
           kbs[k].prefix # <<>> => kbs[k].prefix = <<"docs", UserHash(kbs[k].owner)>>
    /\ \A key \in s3 :
           /\ key[3] \in DOMAIN documents_table
           /\ LET t == documents_table[key[3]].user_id
              IN  \/ key[1] = "pending" /\ key[2] = t
                  \/ key[1] = "docs" /\ key[2] = UserHash(t)
    /\ \A t \in Tenants :
           LET r == IF HasVerifiedKb(Cur, t)
                    THEN _process_pending_documents(Cur, t, user_kb_table[t], {}, FALSE)
                    ELSE get_or_create_user_kb(Cur, t, "none", {}, FALSE).st
           IN  \A u \in Tenants \ {t} :
                   /\ PendingObjects(r.s3, u) = PendingObjects(s3, u)
                   /\ {key \in r.s3 : key[2] = UserHash(u)} = {key \in s3 : key[2] = UserHash(u)}
                   /\ \A d \in UserDocumentsIndex(documents_table, u) :
                          d \in DOMAIN r.docs /\ r.docs[d] = documents_table[d]

\* C30 happens: t1 and t2 uploaded before either had a knowledge base; the
\* handler of t1's document has provisioned and migrated for t1, and t2's blob
\* still lies under pending/t2/ with its item untouched.
C30_Witness ==
    /\ {1, 2} \subseteq DOMAIN events
    /\ events[1].user_id = "t1" /\ events[1].pc = "done"
    /\ events[2].user_id = "t2" /\ events[2].pc = "queued"
    /\ PendingKey("t2", 2, "report.pdf") \in s3
    /\ documents_table[DocId(2)].sync_status = "creating_knowledge_base"
    /\ FinalKey(UserHash("t1"), DocId(1), "report.pdf") \in s3

\* C31: every item of the documents table lies under a document_id that
\* process_document generated and carries the user_id of a tenant.
C31_OnlyUploadedDocuments ==
    \A d \in DOMAIN documents_table :
        /\ \E n \in 1..(nextDoc - 1) : d = DocId(n)
        /\ documents_table[d].user_id \in Tenants

\* Document n was deleted: its id was generated, and its item, which every
\* upload without a failure writes, is no longer in the table; only a
\* delete_document that reported success removes an item.
Deleted(n) == n < nextDoc /\ DocId(n) \notin DOMAIN documents_table

\* C32: once delete_document has removed a document's item with success, no
\* item for that document is in the table in any later state, whatever the
\* handler, the migrator and get_or_create do afterwards.
C32_DeletedStaysDeleted ==
    [][\A n \in Docs : Deleted(n) => DocId(n) \notin DOMAIN documents_table']_vars

\* The blobs of document n: the keys of the documents bucket, under pending/
\* or under docs/, that carry its document_id.
BlobsOf(n) == {k \in s3 : k[3] = DocId(n)}

\* C33: once delete_document has removed a document's item with success, the
\* blob store raising no error, no blob of that document remains under
\* pending/ or under docs/, also when the delete ran while the handler or the
\* migrator was moving the blob.
C33_DeletedLeavesNoBlob ==
    \A n \in Docs : Deleted(n) => BlobsOf(n) = {}

\* C34: while no document is deleted, every document that process_document
\* uploaded has its blob in the bucket, under its pending key or under its
\* final key, in every state the handler's steps, the migrator and
\* get_or_create reach in any order, also when copies of the migrator raise.
C34_MoveNeverLosesBlob ==
    \A n \in 1..(nextDoc - 1) :
        \/ PendingKey("t1", n, documents_table[DocId(n)].filename) \in s3
        \/ FinalKey(UserHash("t1"), DocId(n), documents_table[DocId(n)].filename) \in s3
\* The migrator failed to copy document 1 and document 2 was moved: document 1
\* is still under pending/, document 2 under docs/.
C34_Witness ==
    /\ nextDoc > 2
    /\ PendingKey("t1", 1, "report.pdf") \in s3
    /\ FinalKey(UserHash("t1"), DocId(2), "report.pdf") \in s3
    /\ PendingKey("t1", 2, "report.pdf") \notin s3

\* C35: a tenant's item whose knowledge base exists at the provider is never
\* removed or replaced, and no further knowledge base is provisioned for the
\* tenant, by get_or_create or by the existence check of an upload, also when
\* the provider fails to answer the check.
C35_LiveIndexKeptOnCheckFailure ==
    [][\A t \in Tenants :
          (/\ t \in DOMAIN user_kb_table
           /\ user_kb_table[t].knowledge_base_id \in DOMAIN kbs
           /\ kbs[user_kb_table[t].knowledge_base_id].live)
          => /\ t \in DOMAIN user_kb_table'
             /\ user_kb_table'[t].knowledge_base_id = user_kb_table[t].knowledge_base_id
             /\ {k \in DOMAIN kbs' : kbs'[k].owner = t} = {k \in DOMAIN kbs : kbs[k].owner = t}]_vars

\* C36: whenever delete(T) reports success, the tenant has no item in the
\* tenant table afterwards, also when the delete_item of the item raises.
C36_SuccessfulDeleteRemovesItem ==
    \A t \in Tenants, fault \in {"none", "bucket", "dynamodb"} :
        LET r == delete_user_kb(Cur, t, fault)
        IN  r.ret.ok => t \notin DOMAIN r.st.ukb

\* C37: whenever process_document reports failure, neither an item nor a blob
\* exists for the document id it generated, on the fast path and on the slow
\* path, also when the asynchronous invocation raises after the blob and the
\* item were written.
C37_FailedUploadLeavesNoTrace ==
    \A t \in Tenants, f \in Filenames, fault \in {"none", "ingest", "invoke"} :
        LET r == process_document(Cur, t, f, fault)
            d == DocId(nextDoc)
        IN  ~r.ret.ok => /\ d \notin DOMAIN r.st.docs
                         /\ {k \in r.st.s3 : k[3] = d} = {}

\* C38: in every state the document_count of t1's item is at most the number
\* of documents t1 has uploaded; a first upload that the handler completes
\* counts once.  (t1 is the tenant that uploads.)
C38_CountAtMostUploads ==
    "t1" \in DOMAIN user_kb_table => user_kb_table["t1"].document_count <= nextDoc - 1

\* The documents whose sync_status differs between two tables
StatusChanged(before, after) ==
    {d \in DOMAIN before : d \notin DOMAIN after \/ after[d].sync_status # before[d].sync_status}

\* C39: the count that check_ingestion_status returns for a tenant is the
\* number of documents whose sync_status the call changed, those it set to
\* completed and those it set to failed together.
C39_CountIsDocumentsChanged ==
    \A t \in Tenants :
        LET r == check_ingestion_status(Cur, t)
        IN  r.ret.ok => r.ret.count = Cardinality(StatusChanged(documents_table, r.st.docs))

\* The jobs that a reconcile of T finds ended: those listed for the knowledge
\* base of T's item that are COMPLETE or FAILED.
ObservedEnded(t) ==
    IF t \notin DOMAIN user_kb_table THEN {}
    ELSE {j \in ListIngestionJobs(jobs, user_kb_table[t].knowledge_base_id) :
            jobs[j].status \in {"COMPLETE", "FAILED"}}

\* C40: check_ingestion_status for a tenant T writes nothing but document
\* items, adds and removes none, and changes an item only if it is T's, holds
\* the id of a job listed for T's knowledge base as COMPLETE or FAILED, and is
\* in processing or syncing; items whose job still runs, items without a job
\* id, items completed or failed and items of other tenants stay as they are.
\* Without an item for T the call changes nothing and returns an error.
C40_ReconcileFrame ==
    \A t \in Tenants :
        LET r == check_ingestion_status(Cur, t)
        IN  /\ r.st = [Cur EXCEPT !.docs = r.st.docs]
            /\ DOMAIN r.st.docs = DOMAIN documents_table
            /\ \A d \in DOMAIN documents_table :
                   r.st.docs[d] # documents_table[d] =>
                       /\ documents_table[d].user_id = t
                       /\ documents_table[d].ingestion_job_id \in ObservedEnded(t)
                       /\ documents_table[d].sync_status \in {"processing", "syncing"}
            /\ t \notin DOMAIN user_kb_table => ~r.ret.ok /\ r.st = Cur
\* C40 happens: a reconcile of one tenant has set a document to failed while a
\* document of the other tenant, in processing under a job that has ended as
\* well, is as it was, and that other tenant has no item any more.
C40_Witness ==
    \E d1, d2 \in DOMAIN documents_table :
        /\ documents_table[d1].user_id # documents_table[d2].user_id
        /\ documents_table[d1].sync_status = "failed"
        /\ documents_table[d2].sync_status = "processing"
        /\ documents_table[d2].ingestion_job_id \in DOMAIN jobs
        /\ jobs[documents_table[d2].ingestion_job_id].status = "FAILED"
        /\ documents_table[d2].user_id \notin DOMAIN user_kb_table
====
